---- MODULE Spec2Model ----
(***************************************************************************)
(* Model of the operation-result classifier of forky                       *)
(* (src-tauri/src/git/repository.rs) and of the operations that return a   *)
(* GitOperationResult.  Texts are TLA+ strings handled character by        *)
(* character, so substring tests, case folding, trimming and line          *)
(* splitting are computed the way the Rust standard library computes them. *)
(***************************************************************************)
EXTENDS Integers, Sequences, FiniteSets, TLC

(***************************************************************************)
(* Rust std string functions used by the classifier.                       *)
(***************************************************************************)

\* Option<T>: None is the empty sequence, Some(x) the one-element sequence.
None == <<>>

Some(x) == <<x>>

\* str::len / slicing helpers (1-based, inclusive)
Sub(s, i, j) == SubSeq(s, i, j)

From(s, i) == SubSeq(s, i, Len(s))

\* the least index of a set of positions, 0 (Rust's None) when there is none
First(idx) == IF idx = {} THEN 0 ELSE CHOOSE i \in idx : \A j \in idx : i <= j

\* the greatest index of a set of positions, 0 when there is none
Last(idx) == IF idx = {} THEN 0 ELSE CHOOSE i \in idx : \A j \in idx : i >= j

\* str::contains(pattern)
Contains(s, p) ==
    \E i \in 1..(Len(s) - Len(p) + 1) : SubSeq(s, i, i + Len(p) - 1) = p

\* str::starts_with(pattern)
StartsWith(s, p) == Len(s) >= Len(p) /\ SubSeq(s, 1, Len(p)) = p

\* str::find(pattern): 1-based index of the first match, 0 for None
Find(s, p) ==
    First({i \in 1..(Len(s) - Len(p) + 1) : SubSeq(s, i, i + Len(p) - 1) = p})

\* char::to_lowercase for the letters that occur in git output
LowerChar(c) ==
    CASE c = "A" -> "a" [] c = "B" -> "b" [] c = "C" -> "c" [] c = "D" -> "d"
      [] c = "E" -> "e" [] c = "F" -> "f" [] c = "G" -> "g" [] c = "H" -> "h"
      [] c = "I" -> "i" [] c = "J" -> "j" [] c = "K" -> "k" [] c = "L" -> "l"
      [] c = "M" -> "m" [] c = "N" -> "n" [] c = "O" -> "o" [] c = "P" -> "p"
      [] c = "Q" -> "q" [] c = "R" -> "r" [] c = "S" -> "s" [] c = "T" -> "t"
      [] c = "U" -> "u" [] c = "V" -> "v" [] c = "W" -> "w" [] c = "X" -> "x"
      [] c = "Y" -> "y" [] c = "Z" -> "z" [] c = "Ñ" -> "ñ" [] c = "Á" -> "á"
      [] c = "É" -> "é" [] c = "Í" -> "í" [] c = "Ó" -> "ó" [] c = "Ú" -> "ú"
      [] OTHER -> c

\* str::to_lowercase: every character folded, computed by halving the text
RECURSIVE ToLowercase(_)
ToLowercase(s) ==
    IF Len(s) <= 1 THEN LowerChar(s)
    ELSE LET Halves(m) ==
                 ToLowercase(SubSeq(s, 1, m)) \o ToLowercase(SubSeq(s, m + 1, Len(s)))
         IN  Halves(Len(s) \div 2)

\* char::is_whitespace for the white space that occurs in process output
IsWhitespace(c) == c \in {" ", "\n", "\t", "\r"}

\* str::trim_start
TrimStart(s) ==
    LET Keep(i) == IF i = 0 THEN "" ELSE SubSeq(s, i, Len(s))
    IN  Keep(First({i \in 1..Len(s) : ~IsWhitespace(SubSeq(s, i, i))}))

\* str::trim_end
TrimEnd(s) ==
    LET Keep(i) == IF i = 0 THEN "" ELSE SubSeq(s, 1, i)
    IN  Keep(Last({i \in 1..Len(s) : ~IsWhitespace(SubSeq(s, i, i))}))

\* str::trim
Trim(s) == TrimEnd(TrimStart(s))

\* str::trim_end_matches(char): every trailing repetition of c is removed
TrimEndMatches(s, c) ==
    LET Keep(i) == IF i = 0 THEN "" ELSE SubSeq(s, 1, i)
    IN  Keep(Last({i \in 1..Len(s) : SubSeq(s, i, i) # c}))

\* one line of str::lines(): a "\r" right before the "\n" belongs to the ending
StripCR(l) ==
    IF Len(l) > 0 /\ SubSeq(l, Len(l), Len(l)) = "\r"
    THEN SubSeq(l, 1, Len(l) - 1) ELSE l

\* str::lines(): split at "\n" or "\r\n"; the final line ending is optional
RECURSIVE Lines(_)
Lines(s) ==
    IF s = "" THEN <<>>
    ELSE LET Split(i) ==
                 IF i = 0 THEN <<s>>
                 ELSE <<StripCR(SubSeq(s, 1, i - 1))>>
                      \o Lines(SubSeq(s, i + 1, Len(s)))
         IN  Split(Find(s, "\n"))

\* str::split_whitespace(): the maximal runs of non-white-space characters
RECURSIVE SplitWhitespace(_)
SplitWhitespace(s) ==
    LET Cut(t, e) ==
            IF e = 0 THEN <<t>>
            ELSE <<SubSeq(t, 1, e - 1)>> \o SplitWhitespace(SubSeq(t, e, Len(t)))
        Words(t) ==
            IF t = "" THEN <<>>
            ELSE Cut(t, First({i \in 1..Len(t) : IsWhitespace(SubSeq(t, i, i))}))
    IN  Words(TrimStart(s))

(***************************************************************************)
(* The classifier: repository.rs, lines 942-1221.                          *)
(***************************************************************************)

\* struct GitOperationResult
GitOperationResult(success, message, ssh, credential, error_type, files) ==
    [success |-> success,
     message |-> message,
     requires_ssh_verification |-> ssh,
     requires_credential |-> credential,
     error_type |-> error_type,
     conflicting_files |-> files]

\* struct SshHostVerification
SshHostVerification(host, key_type, fingerprint) ==
    [host |-> host, key_type |-> key_type, fingerprint |-> fingerprint]

\* struct CredentialRequest
CredentialRequest(credential_type, prompt, host) ==
    [credential_type |-> credential_type, prompt |-> prompt, host |-> host]

\* detect_error_type that tries the generic "fatal:" matcher first
GenericFailureFirst(stderr) ==
    LET Detect(lower) ==
            IF Contains(lower, "fatal:")
            THEN Some("git_error")
            ELSE IF Contains(lower, "host key verification failed")
            THEN Some("ssh_host_verification_failed")
            ELSE IF Contains(lower, "permission denied")
                    \/ Contains(lower, "publickey")
            THEN Some("authentication_failed")
            ELSE IF Contains(lower, "could not read from remote")
            THEN Some("remote_access_failed")
            ELSE IF Contains(lower, "connection refused")
            THEN Some("connection_refused")
            ELSE IF Contains(lower, "connection timed out")
            THEN Some("connection_timeout")
            ELSE IF Contains(lower, "could not resolve host")
            THEN Some("host_not_found")
            ELSE IF Contains(lower, "would be overwritten by checkout")
            THEN Some("checkout_would_overwrite")
            ELSE IF Contains(lower, "divergent branches")
            THEN Some("divergent_branches")
            ELSE None
    IN  Detect(ToLowercase(stderr))

\* fn detect_error_type(stderr) -> Option<String>
detect_error_type(stderr) ==
    LET Detect(lower) ==
            IF Contains(lower, "host key verification failed")
            THEN Some("ssh_host_verification_failed")
            ELSE IF Contains(lower, "permission denied")
                    \/ Contains(lower, "publickey")
            THEN Some("authentication_failed")
            ELSE IF Contains(lower, "could not read from remote")
                    \/ Contains(lower, "no se pudo leer del repositorio remoto")
            THEN Some("remote_access_failed")
            ELSE IF Contains(lower, "connection refused")
                    \/ Contains(lower, "conexión rechazada")
            THEN Some("connection_refused")
            ELSE IF Contains(lower, "connection timed out")
                    \/ Contains(lower, "tiempo de espera agotado")
            THEN Some("connection_timeout")
            ELSE IF Contains(lower, "could not resolve host")
                    \/ Contains(lower, "no se pudo resolver")
            THEN Some("host_not_found")
            ELSE IF Contains(lower, "would be overwritten by checkout")
                    \/ Contains(lower, "serían sobrescritos por checkout")
                    \/ Contains(lower, "serán sobrescritos por checkout")
            THEN Some("checkout_would_overwrite")
            ELSE IF Contains(lower, "divergent branches")
                    \/ Contains(lower, "need to specify how to reconcile")
                    \/ Contains(lower, "ramas divergentes")
            THEN Some("divergent_branches")
            ELSE IF Contains(lower, "fatal:")
            THEN Some("git_error")
            ELSE None
    IN  Detect(ToLowercase(stderr))

\* the loop body of extract_conflicting_files over the lines still to read
RECURSIVE ExtractLoop(_, _, _)
ExtractLoop(ls, in_file_list, files) ==
    LET Line(trimmed) ==
            IF Contains(trimmed, "would be overwritten")
               \/ Contains(trimmed, "serían sobrescritos")
               \/ Contains(trimmed, "serán sobrescritos")
            THEN ExtractLoop(Tail(ls), TRUE, files)
            ELSE IF StartsWith(trimmed, "Please")
                    \/ StartsWith(trimmed, "Por favor")
                    \/ Contains(trimmed, "Aborting")
                    \/ Contains(trimmed, "Abortando")
            THEN files
            ELSE IF in_file_list /\ trimmed # "" /\ ~StartsWith(trimmed, "error")
            THEN ExtractLoop(Tail(ls), in_file_list, Append(files, trimmed))
            ELSE ExtractLoop(Tail(ls), in_file_list, files)
    IN  IF ls = <<>> THEN files ELSE Line(Trim(Head(ls)))

\* fn extract_conflicting_files(stderr) -> Vec<String>
extract_conflicting_files(stderr) == ExtractLoop(Lines(stderr), FALSE, <<>>)

\* the host of a username/password prompt: the text between the first two quotes
QuotedHost(output) ==
    LET Closing(rest, end) ==
            IF end # 0 THEN Some(Sub(rest, 1, end - 1)) ELSE None
        Rest(rest) == Closing(rest, Find(rest, "'"))
        Opening(start) ==
            IF start # 0 THEN Rest(From(output, start + 1)) ELSE None
    IN  Opening(Find(output, "'"))

\* parse_credential_request that reads the host of a passphrase prompt too
PassphraseWithHost(output) ==
    LET Parse(lower) ==
            IF Contains(lower, "username for") \/ Contains(lower, "usuario para")
            THEN Some(CredentialRequest("username", Trim(output),
                                        QuotedHost(output)))
            ELSE IF Contains(lower, "password for")
                    \/ Contains(lower, "contraseña para")
            THEN Some(CredentialRequest("password", Trim(output),
                                        QuotedHost(output)))
            ELSE IF Contains(lower, "enter passphrase")
                    \/ Contains(lower, "introduzca la contraseña")
            THEN Some(CredentialRequest("passphrase", Trim(output),
                                        QuotedHost(output)))
            ELSE None
    IN  Parse(ToLowercase(output))

\* fn parse_credential_request(output) -> Option<CredentialRequest>
parse_credential_request(output) ==
    LET Parse(lower) ==
            IF Contains(lower, "username for") \/ Contains(lower, "usuario para")
            THEN Some(CredentialRequest("username", Trim(output),
                                        QuotedHost(output)))
            ELSE IF Contains(lower, "password for")
                    \/ Contains(lower, "contraseña para")
            THEN Some(CredentialRequest("password", Trim(output),
                                        QuotedHost(output)))
            ELSE IF Contains(lower, "enter passphrase")
                    \/ Contains(lower, "introduzca la contraseña")
            THEN Some(CredentialRequest("passphrase", Trim(output), None))
            ELSE None
    IN  Parse(ToLowercase(output))

\* the host read between the first two quote marks of stderr, wherever they are
HostOfFirstQuotes(stderr) ==
    LET Cut(host_part, space_pos) ==
            IF space_pos # 0
            THEN Some(Sub(host_part, 1, space_pos - 1))
            ELSE Some(host_part)
        HostPart(quoted) ==
            IF quoted = None THEN None ELSE Cut(quoted[1], Find(quoted[1], " "))
    IN  HostPart(QuotedHost(stderr))

\* the host part of parse_ssh_host_verification; None where the code returns None
SshHost(stderr) ==
    LET Cut(host_part, space_pos) ==
            IF space_pos # 0
            THEN Some(Sub(host_part, 1, space_pos - 1))
            ELSE Some(host_part)
        HostPart(host_part) == Cut(host_part, Find(host_part, " "))
        Closing(after_host, end) ==
            IF end # 0 THEN HostPart(Sub(after_host, 1, end - 1)) ELSE None
        AfterHost(after_host) == Closing(after_host, Find(after_host, "'"))
        Opening(start) ==
            IF start # 0 THEN AfterHost(From(stderr, start + 6)) ELSE None
    IN  Opening(Find(stderr, "host '"))

\* the first of parts that starts with "SHA256:" or "MD5:", trailing '.' removed
RECURSIVE FingerprintOf(_)
FingerprintOf(parts) ==
    IF parts = <<>> THEN ""
    ELSE IF StartsWith(Head(parts), "SHA256:") \/ StartsWith(Head(parts), "MD5:")
    THEN TrimEndMatches(Head(parts), ".")
    ELSE FingerprintOf(Tail(parts))

\* the loop over stderr.lines(): only the first "key fingerprint" line is read
RECURSIVE SshKey(_)
SshKey(ls) ==
    LET Key(parts) ==
            IF Len(parts) >= 4
            THEN [key_type |-> parts[1], fingerprint |-> FingerprintOf(parts)]
            ELSE [key_type |-> "", fingerprint |-> ""]
    IN  IF ls = <<>> THEN [key_type |-> "", fingerprint |-> ""]
        ELSE IF Contains(Head(ls), "key fingerprint")
        THEN Key(SplitWhitespace(Head(ls)))
        ELSE SshKey(Tail(ls))

\* fn parse_ssh_host_verification(stderr) -> Option<SshHostVerification>
parse_ssh_host_verification(stderr) ==
    LET Verification(host, key) ==
            IF host = None THEN None
            ELSE IF host[1] # "" /\ key.fingerprint # ""
            THEN Some(SshHostVerification(host[1], key.key_type, key.fingerprint))
            ELSE None
    IN  IF ~Contains(stderr, "authenticity of host")
           \/ ~Contains(stderr, "can't be established")
        THEN None
        ELSE Verification(SshHost(stderr), SshKey(Lines(stderr)))

\* create_error_result with steps 1 and 2 exchanged: the credential prompt is
\* looked for before the host-authenticity text
CredentialBeforeSsh(stderr, stdout) ==
    LET Ssh(ssh_verification) ==
            IF ssh_verification # None
            THEN GitOperationResult(FALSE, "SSH host verification required",
                                    ssh_verification, None,
                                    Some("ssh_host_verification"), None)
            ELSE GitOperationResult(FALSE, Trim(stderr), None, None,
                                    detect_error_type(stderr), None)
        Credential(credential) ==
            IF credential # None
            THEN GitOperationResult(FALSE, credential[1].prompt, None, credential,
                                    Some("credential_required"), None)
            ELSE Ssh(parse_ssh_host_verification(stderr))
    IN  Credential(parse_credential_request(stdout \o "\n" \o stderr))

\* create_error_result that goes on to step 2 after step 1 has matched, and so
\* can fill both payloads
BothPayloads(stderr, stdout) ==
    LET Fill(ssh_verification, credential) ==
            IF ssh_verification # None
            THEN GitOperationResult(FALSE, "SSH host verification required",
                                    ssh_verification, credential,
                                    Some("ssh_host_verification"), None)
            ELSE IF credential # None
            THEN GitOperationResult(FALSE, credential[1].prompt, None, credential,
                                    Some("credential_required"), None)
            ELSE GitOperationResult(FALSE, Trim(stderr), None, None,
                                    detect_error_type(stderr), None)
    IN  Fill(parse_ssh_host_verification(stderr),
             parse_credential_request(stdout \o "\n" \o stderr))

\* fn create_error_result(stderr, stdout) -> GitOperationResult
create_error_result(stderr, stdout) ==
    LET Files(files) == IF files = <<>> THEN None ELSE Some(files)
        Generic(error_type) ==
            GitOperationResult(FALSE, Trim(stderr), None, None, error_type,
                               IF error_type = Some("checkout_would_overwrite")
                               THEN Files(extract_conflicting_files(stderr))
                               ELSE None)
        Credential(credential) ==
            IF credential # None
            THEN GitOperationResult(FALSE, credential[1].prompt, None, credential,
                                    Some("credential_required"), None)
            ELSE Generic(detect_error_type(stderr))
        Ssh(ssh_verification) ==
            IF ssh_verification # None
            THEN GitOperationResult(FALSE, "SSH host verification required",
                                    ssh_verification, None,
                                    Some("ssh_host_verification"), None)
            ELSE Credential(parse_credential_request(stdout \o "\n" \o stderr))
    IN  Ssh(parse_ssh_host_verification(stderr))

\* create_success_result that leaves an empty list where no list belongs
SuccessWithEmptyList(message) ==
    GitOperationResult(TRUE, message, None, None, None, Some(<<>>))

\* fn create_success_result(message) -> GitOperationResult
create_success_result(message) ==
    GitOperationResult(TRUE, message, None, None, None, None)

(***************************************************************************)
(* Subprocesses: std::process::Command ... .output()                       *)
(***************************************************************************)

\* Result<T, String>
Ok(v) == [ok |-> TRUE, value |-> v, error |-> ""]

Err(e) == [ok |-> FALSE, value |-> <<>>, error |-> e]

\* the io::Error of a command that could not be started
SpawnError == "No such file or directory (os error 2)"

\* Command::output() failed: no process was started
SpawnFailure ==
    [spawned |-> FALSE, success |-> FALSE, stdout |-> "", stderr |-> "",
     error |-> SpawnError]

\* Command::output() returned the Output of a process that ran and exited
Exited(success, stdout, stderr) ==
    [spawned |-> TRUE, success |-> success, stdout |-> stdout, stderr |-> stderr,
     error |-> ""]

\* the environment overrides set with .env(...)
NetEnv ==
    {"GIT_TERMINAL_PROMPT=0",
     "GIT_SSH_COMMAND=ssh -o BatchMode=yes -o StrictHostKeyChecking=ask"}

PromptEnv == {"GIT_TERMINAL_PROMPT=0"}

NoEnv == {}

\* one started (or attempted) command of an invocation
Proc(cmd, env, o) ==
    [cmd |-> cmd, env |-> env, spawned |-> o.spawned,
     success |-> o.spawned /\ o.success]

(***************************************************************************)
(* Process output the model draws from.  Every fragment is a piece of real *)
(* git or ssh output; a text is a concatenation of fragments.              *)
(***************************************************************************)

SshEd25519 ==
    "The authenticity of host 'example.com (1.2.3.4)' can't be established.\nED25519 key fingerprint is SHA256:abcd1234.\n"

SshRsaMd5 ==
    "The authenticity of host 'git.local' can't be established.\nRSA key fingerprint is MD5:aa:bb.\n"

SshNoFingerprint == "The authenticity of host 'h2 (10.0.0.1)' can't be established.\n"

CloningInto == "Cloning into 'repo'...\n"

UsernamePrompt == "Username for 'https://github.com': "

PasswordPromptEs == "Contraseña para 'https://u@gitlab.com': "

PassphrasePrompt == "Enter passphrase for key '/home/u/.ssh/id_rsa': "

HostKeyFailed == "Host key verification failed.\n"

PermissionDenied == "git@github.com: Permission denied (publickey).\n"

RemoteReadFailed == "fatal: Could not read from remote repository.\n"

ConnectionRefusedEs == "ssh: connect to host h port 22: Conexión rechazada\n"

ConnectionTimedOut == "ssh: connect to host h port 22: Connection timed out\n"

CouldNotResolve == "ssh: Could not resolve hostname h: Name or service not known\n"

WouldOverwrite ==
    "error: Your local changes to the following files would be overwritten by checkout:\n\ta.txt\n\tb.txt\nPlease commit your changes or stash them before you switch branches.\nAborting\n"

DivergentBranches ==
    "hint: You have divergent branches and need to specify how to reconcile them.\n"

FatalAuth == "fatal: Authentication failed for 'https://h/'\n"

\* the lines that the classifier runs put together
Fragments ==
    {SshEd25519, SshNoFingerprint, CloningInto, UsernamePrompt, PasswordPromptEs,
     PassphrasePrompt, HostKeyFailed, PermissionDenied, RemoteReadFailed,
     ConnectionTimedOut, WouldOverwrite, FatalAuth}

\* a whole stderr: the host-authenticity text without a final line ending
SshExample ==
    "The authenticity of host 'example.com (1.2.3.4)' can't be established.\nED25519 key fingerprint is SHA256:abcd1234."

\* a whole stderr: two error phrases on one line
AuthExample == "fatal: Authentication failed ... permission denied"

\* the lines that the classifier runs read alone
OtherLines ==
    {SshRsaMd5, ConnectionRefusedEs, CouldNotResolve, DivergentBranches,
     SshExample, AuthExample}

\* the longest stderr of the classifier runs, in fragments
MaxFrags == 2

\* every concatenation of at most n fragments
RECURSIVE Texts(_)
Texts(n) ==
    IF n = 0 THEN {""}
    ELSE LET shorter == Texts(n - 1)
         IN  shorter \cup {t \o f : t \in shorter, f \in Fragments}

PasswordPrompt == "Password for 'https://u@h': "

AlreadyUpToDate == "Already up to date.\n"

YaEstaActualizado == "Ya está actualizado.\n"

\* the stdout of the classifier runs
ClassifyStdouts == {"", PasswordPrompt, AlreadyUpToDate}

(***************************************************************************)
(* Operations that start one subprocess.  Each is a function of the        *)
(* Output o of that subprocess (and of the arguments its message shows).   *)
(***************************************************************************)

\* the body shared by the operations below: .map_err(...)? on the spawn
SpawnErr(what, o) == Err(what \o ": " \o o.error)

\* git_pull that raises with stderr when the process exits non-zero
PullRaisesOnFailure(o) ==
    IF ~o.spawned THEN SpawnErr("Failed to execute git pull", o)
    ELSE IF o.success THEN Ok(create_success_result(Trim(o.stdout)))
    ELSE Err("git pull failed: " \o o.stderr)

\* git_pull that classifies the output before it reads the exit status
PullClassifiesFirst(o) ==
    IF ~o.spawned THEN SpawnErr("Failed to execute git pull", o)
    ELSE IF parse_ssh_host_verification(o.stderr) # None
            \/ parse_credential_request(o.stdout \o "\n" \o o.stderr) # None
            \/ ~o.success
    THEN Ok(create_error_result(o.stderr, o.stdout))
    ELSE Ok(create_success_result(Trim(o.stdout)))

\* fn git_pull(repo_path)
git_pull(o) ==
    IF ~o.spawned THEN SpawnErr("Failed to execute git pull", o)
    ELSE IF o.success
    THEN Ok(create_success_result(
             IF Contains(o.stdout, "Already up to date")
                \/ Contains(o.stdout, "Ya está actualizado")
             THEN "Already up to date"
             ELSE Trim(o.stdout)))
    ELSE Ok(create_error_result(o.stderr, o.stdout))

\* fn git_push(repo_path)
git_push(o) ==
    IF ~o.spawned THEN SpawnErr("Failed to execute git push", o)
    ELSE IF o.success
    THEN Ok(create_success_result(
             IF Contains(o.stderr, "Everything up-to-date")
                \/ Contains(o.stderr, "Todo actualizado")
             THEN "Everything up-to-date"
             ELSE IF o.stdout = "" /\ o.stderr = ""
             THEN "Push completed successfully"
             ELSE Trim(o.stdout \o o.stderr)))
    ELSE Ok(create_error_result(o.stderr, o.stdout))

\* fn git_fetch(repo_path)
git_fetch(o) ==
    IF ~o.spawned THEN SpawnErr("Failed to execute git fetch", o)
    ELSE IF o.success
    THEN Ok(create_success_result(
             IF o.stdout = "" /\ o.stderr = "" THEN "Fetch completed"
             ELSE Trim(o.stdout \o o.stderr)))
    ELSE Ok(create_error_result(o.stderr, o.stdout))

\* fn git_fetch_with_options(repo_path, options)
git_fetch_with_options(o) ==
    IF ~o.spawned THEN SpawnErr("Failed to execute git fetch", o)
    ELSE IF o.success
    THEN Ok(create_success_result(
             IF o.stdout = "" /\ o.stderr = "" THEN "Fetch completed"
             ELSE Trim(o.stdout \o o.stderr)))
    ELSE Ok(create_error_result(o.stderr, o.stdout))

\* git_pull_with_options that hands on what the tool wrote as it is
PullKeepsRawOutput(o) ==
    IF ~o.spawned THEN SpawnErr("Failed to execute git pull", o)
    ELSE IF o.success THEN Ok(create_success_result(Trim(o.stdout)))
    ELSE Ok(create_error_result(o.stderr, o.stdout))

\* fn git_pull_with_options(repo_path, options)
git_pull_with_options(o) ==
    IF ~o.spawned THEN SpawnErr("Failed to execute git pull", o)
    ELSE IF o.success
    THEN Ok(create_success_result(
             IF Contains(o.stdout, "Already up to date")
                \/ Contains(o.stdout, "Ya está actualizado")
             THEN "Already up to date"
             ELSE Trim(o.stdout)))
    ELSE Ok(create_error_result(o.stderr, o.stdout))

\* fn git_push_with_options(repo_path, options)
git_push_with_options(o) ==
    IF ~o.spawned THEN SpawnErr("Failed to execute git push", o)
    ELSE IF o.success
    THEN Ok(create_success_result(
             IF Contains(o.stderr, "Everything up-to-date")
                \/ Contains(o.stderr, "Todo actualizado")
             THEN "Everything up-to-date"
             ELSE IF o.stdout = "" /\ o.stderr = ""
             THEN "Push completed successfully"
             ELSE Trim(o.stdout \o o.stderr)))
    ELSE Ok(create_error_result(o.stderr, o.stdout))

\* fn git_checkout(repo_path, branch_name)
git_checkout(branch_name, o) ==
    IF ~o.spawned THEN SpawnErr("Failed to execute git checkout", o)
    ELSE IF o.success
    THEN Ok(create_success_result(
             IF Contains(o.stderr, "Switched to branch")
                \/ Contains(o.stderr, "Cambiado a rama")
             THEN Trim(o.stderr)
             ELSE IF o.stdout # "" THEN Trim(o.stdout)
             ELSE "Switched to branch '" \o branch_name \o "'"))
    ELSE Ok(create_error_result(o.stderr, o.stdout))

\* fn git_checkout_track(repo_path, local_branch, remote_branch)
git_checkout_track(local_branch, remote_branch, o) ==
    IF ~o.spawned THEN SpawnErr("Failed to execute git checkout", o)
    ELSE IF o.success
    THEN Ok(create_success_result(
             IF Contains(o.stderr, "Switched to") \/ Contains(o.stderr, "Cambiado a")
             THEN Trim(o.stderr)
             ELSE IF o.stdout # "" THEN Trim(o.stdout)
             ELSE "Branch '" \o local_branch \o "' set up to track remote branch '"
                  \o remote_branch \o "'"))
    ELSE Ok(create_error_result(o.stderr, o.stdout))

\* stdout.lines().next().unwrap_or(default)
FirstLineOr(text, default) ==
    IF Lines(text) = <<>> THEN default ELSE Head(Lines(text))

\* fn git_commit(repo_path, message, amend)
git_commit(o) ==
    IF ~o.spawned THEN SpawnErr("Failed to execute git commit", o)
    ELSE IF o.success
    THEN Ok(create_success_result(
             IF Contains(o.stdout, "create mode") \/ Contains(o.stdout, "delete mode")
             THEN FirstLineOr(o.stdout, "Commit created")
             ELSE IF Trim(o.stdout) # "" THEN Trim(o.stdout)
             ELSE "Commit created successfully"))
    ELSE Ok(create_error_result(o.stderr, o.stdout))

\* fn git_add_remote(repo_path, name, url)
git_add_remote(name, o) ==
    IF ~o.spawned THEN SpawnErr("Failed to execute git remote add", o)
    ELSE IF o.success
    THEN Ok(create_success_result("Remote '" \o name \o "' added successfully"))
    ELSE Ok(create_error_result(o.stderr, o.stdout))

\* fn git_test_remote_connection(url): the fixed text is passed as stderr and
\* the stderr of the process as stdout
git_test_remote_connection(o) ==
    IF ~o.spawned THEN SpawnErr("Failed to test connection", o)
    ELSE IF o.success THEN Ok(create_success_result("Connection successful"))
    ELSE IF Contains(o.stderr, "Host key verification failed")
    THEN Ok(create_error_result(
             "SSH host key verification failed. Add the host to known_hosts first.",
             o.stderr))
    ELSE IF Contains(o.stderr, "Permission denied")
            \/ Contains(o.stderr, "Authentication failed")
    THEN Ok(create_error_result("Authentication failed. Check your credentials.",
                                o.stderr))
    ELSE IF Contains(o.stderr, "Could not resolve host")
    THEN Ok(create_error_result("Could not resolve host. Check the URL.", o.stderr))
    ELSE IF Contains(o.stderr, "Connection refused")
    THEN Ok(create_error_result(
             "Connection refused. Check if the server is accessible.", o.stderr))
    ELSE Ok(create_error_result("Could not connect to remote", o.stderr))

\* fn git_create_branch(repo_path, branch_name, start_point, checkout)
git_create_branch(branch_name, checkout, o) ==
    IF checkout
    THEN IF ~o.spawned THEN SpawnErr("Failed to execute git checkout -b", o)
         ELSE IF o.success
         THEN Ok(create_success_result(
                  IF Contains(o.stderr, "Switched to")
                     \/ Contains(o.stderr, "Cambiado a")
                  THEN Trim(o.stderr)
                  ELSE IF o.stdout # "" THEN Trim(o.stdout)
                  ELSE "Switched to a new branch '" \o branch_name \o "'"))
         ELSE Ok(create_error_result(o.stderr, o.stdout))
    ELSE IF ~o.spawned THEN SpawnErr("Failed to execute git branch", o)
         ELSE IF o.success
         THEN Ok(create_success_result("Branch '" \o branch_name \o "' created"))
         ELSE Ok(create_error_result(o.stderr, o.stdout))

\* a GitOperationResult built in place with an operation's own error tag
\* a failure that carries a catch-all tag in place of its own
FailureTaggedFailed(message, tag) ==
    GitOperationResult(FALSE, message, None, None, Some("failed"), None)

TaggedFailure(message, tag) ==
    GitOperationResult(FALSE, message, None, None, Some(tag), None)

\* fn git_stash_save(repo_path, message, include_untracked, keep_index)
git_stash_save(o) ==
    IF ~o.spawned THEN SpawnErr("Failed to save stash", o)
    ELSE IF ~o.success
    THEN IF Contains(o.stderr, "No local changes to save")
            \/ Contains(o.stdout, "No local changes to save")
         THEN Ok(TaggedFailure("No local changes to save", "no_changes"))
         ELSE Ok(create_error_result(o.stderr, o.stdout))
    ELSE Ok(create_success_result("Stash saved successfully"))

\* fn git_stash_apply(repo_path, stash_index)
git_stash_apply(o) ==
    IF ~o.spawned THEN SpawnErr("Failed to apply stash", o)
    ELSE IF ~o.success
    THEN IF Contains(o.stderr, "CONFLICT") \/ Contains(o.stdout, "CONFLICT")
         THEN Ok(TaggedFailure(
                  "Stash applied with conflicts. Resolve conflicts and commit.\n"
                  \o Trim(o.stderr), "conflicts"))
         ELSE Ok(create_error_result(o.stderr, o.stdout))
    ELSE Ok(create_success_result("Stash applied successfully"))

\* fn git_stash_pop(repo_path, stash_index)
git_stash_pop(o) ==
    IF ~o.spawned THEN SpawnErr("Failed to pop stash", o)
    ELSE IF ~o.success
    THEN IF Contains(o.stderr, "CONFLICT") \/ Contains(o.stdout, "CONFLICT")
         THEN Ok(TaggedFailure(
                  "Stash popped with conflicts. Resolve conflicts and commit. The stash was not dropped.\n"
                  \o Trim(o.stderr), "conflicts"))
         ELSE Ok(create_error_result(o.stderr, o.stdout))
    ELSE Ok(create_success_result("Stash popped successfully"))

\* fn git_stash_drop(repo_path, stash_index)
git_stash_drop(stash_ref, o) ==
    IF ~o.spawned THEN SpawnErr("Failed to drop stash", o)
    ELSE IF ~o.success THEN Ok(create_error_result(o.stderr, o.stdout))
    ELSE Ok(create_success_result("Stash " \o stash_ref \o " dropped"))

\* fn git_merge(repo_path, source_branch, merge_type)
git_merge(source_branch, merge_type, o) ==
    IF ~o.spawned THEN SpawnErr("Failed to execute merge", o)
    ELSE IF ~o.success
    THEN IF Contains(o.stdout, "CONFLICT")
            \/ Contains(o.stderr, "CONFLICT")
            \/ Contains(o.stdout, "Automatic merge failed")
            \/ Contains(o.stderr, "Automatic merge failed")
         THEN LET conflicting_files ==
                      extract_conflicting_files(o.stdout)
                      \o extract_conflicting_files(o.stderr)
              IN  Ok(GitOperationResult(
                       FALSE,
                       "Merge conflicts detected. Resolve conflicts and commit.\n"
                       \o Trim(o.stdout)
                       \o (IF o.stderr = "" THEN "" ELSE "\n" \o Trim(o.stderr)),
                       None, None, Some("merge_conflicts"),
                       Some(conflicting_files)))
         ELSE Ok(create_error_result(o.stderr, o.stdout))
    ELSE IF merge_type = "squash"
    THEN Ok(GitOperationResult(
              TRUE,
              "Squash merge completed. Changes are staged but not committed.\n"
              \o Trim(o.stdout),
              None, None, None, None))
    ELSE Ok(create_success_result("Merge completed successfully.\n"
                                  \o Trim(o.stdout)))

\* fn git_merge_abort(repo_path)
git_merge_abort(o) ==
    IF ~o.spawned THEN SpawnErr("Failed to abort merge", o)
    ELSE IF ~o.success
    THEN IF Contains(o.stderr, "no merge to abort")
            \/ Contains(o.stderr, "There is no merge to abort")
         THEN Ok(TaggedFailure("No merge in progress to abort.",
                               "no_merge_in_progress"))
         ELSE Ok(create_error_result(o.stderr, o.stdout))
    ELSE Ok(create_success_result("Merge aborted successfully."))

\* fn git_rebase_abort(repo_path)
git_rebase_abort(o) ==
    IF ~o.spawned THEN SpawnErr("Failed to execute git rebase --abort", o)
    ELSE IF ~o.success
    THEN IF Contains(o.stderr, "No rebase in progress")
            \/ Contains(o.stderr, "no rebase in progress")
         THEN Ok(TaggedFailure("No rebase in progress to abort.",
                               "no_rebase_in_progress"))
         ELSE Ok(create_error_result(o.stderr, o.stdout))
    ELSE Ok(create_success_result("Rebase aborted successfully."))

\* fn git_rebase_continue(repo_path)
git_rebase_continue(o) ==
    IF ~o.spawned THEN SpawnErr("Failed to execute git rebase --continue", o)
    ELSE IF ~o.success
    THEN IF Contains(o.stderr, "CONFLICT") \/ Contains(o.stderr, "conflict")
         THEN Ok(TaggedFailure("There are still unresolved conflicts.",
                               "rebase_conflicts"))
         ELSE IF Contains(o.stderr, "No rebase in progress")
                 \/ Contains(o.stderr, "no rebase in progress")
         THEN Ok(TaggedFailure("No rebase in progress.", "no_rebase_in_progress"))
         ELSE Ok(create_error_result(o.stderr, o.stdout))
    ELSE Ok(create_success_result("Rebase continued successfully."))

(***************************************************************************)
(* The git-flow settings read by get_gitflow_config (defaults)             *)
(***************************************************************************)

MasterBranch == "master"

DevelopBranch == "develop"

\* the (prefix, base / target branches, create_tag) of a flow type; the
\* empty sequence for an unknown flow type
FlowKind(flow_type) ==
    CASE flow_type = "feature" ->
           Some([prefix |-> "feature/", base |-> DevelopBranch,
                 targets |-> <<DevelopBranch>>, create_tag |-> FALSE])
      [] flow_type = "release" ->
           Some([prefix |-> "release/", base |-> DevelopBranch,
                 targets |-> <<MasterBranch, DevelopBranch>>, create_tag |-> TRUE])
      [] flow_type = "hotfix" ->
           Some([prefix |-> "hotfix/", base |-> MasterBranch,
                 targets |-> <<MasterBranch, DevelopBranch>>, create_tag |-> TRUE])
      [] OTHER -> None

\* what libgit2 answers before any subprocess is started: "ok", or the step
\* that failed ("open": Repository::open, "config": repo.config(),
\* "head": repo.head())
RepoError(lib) ==
    CASE lib = "open" -> "could not find repository"
      [] lib = "config" -> "Failed to read config: config file is locked"
      [] lib = "head" -> "reference 'refs/heads/main' not found"
      [] OTHER -> ""

\* fn git_flow_start(repo_path, flow_type, name, custom_base)
git_flow_start(lib, flow_type, name, o) ==
    IF lib # "ok" THEN Err(RepoError(lib))
    ELSE IF FlowKind(flow_type) = None
    THEN Ok(create_error_result("Unknown flow type: " \o flow_type, ""))
    ELSE IF ~o.spawned THEN SpawnErr("Failed to execute git", o)
    ELSE IF ~o.success THEN Ok(create_error_result(o.stderr, o.stdout))
    ELSE Ok(create_success_result(
              "Started " \o flow_type \o " '" \o name \o "' from '"
              \o FlowKind(flow_type)[1].base \o "'"))

(***************************************************************************)
(* Output of the subprocesses the operations start                         *)
(***************************************************************************)

ConflictLine == "CONFLICT (content): Merge conflict in a.txt\n"

NotFullyMerged == "error: The branch 'topic' is not fully merged.\n"

NoMergeToAbort == "fatal: There is no merge to abort (MERGE_HEAD missing).\n"

NoRebaseInProgress == "fatal: No rebase in progress?\n"

NonFastForward == " ! [rejected]        topic -> topic (non-fast-forward)\n"

EverythingUpToDate == "Everything up-to-date\n"

SwitchedToBranch == "Switched to branch 'topic'\n"

TagAlreadyExists == "fatal: tag '1.0' already exists\n"

MergeConflictOutput ==
    "Auto-merging a.txt\nCONFLICT (content): Merge conflict in a.txt\nAutomatic merge failed; fix conflicts and then commit the result.\n"

NoLocalChanges == "No local changes to save\n"

CurrentBranchUpToDate == "Current branch topic is up to date.\n"

CommitOutput ==
    "[main 1a2b3c4] msg\n 1 file changed, 1 insertion(+)\n create mode 100644 a.txt\n"

CouldNotApply == "error: could not apply 1a2b3c4... msg\n"

ProcStderrs ==
    {""} \cup Fragments \cup OtherLines
    \cup {ConflictLine, NotFullyMerged, NoMergeToAbort, NoRebaseInProgress,
          NonFastForward, EverythingUpToDate, SwitchedToBranch}

ProcStdouts ==
    {"", AlreadyUpToDate, YaEstaActualizado, PasswordPrompt, MergeConflictOutput,
     NoLocalChanges,
     CurrentBranchUpToDate, CommitOutput, CouldNotApply}

\* what a subprocess whose output is classified can do
Outcomes ==
    {SpawnFailure}
    \cup {Exited(s, so, se) : s \in BOOLEAN, so \in ProcStdouts, se \in ProcStderrs}

\* what a subprocess can do of which only the status and stderr are read
StepOutcomes ==
    {SpawnFailure}
    \cup {Exited(s, "", se) :
            s \in BOOLEAN, se \in {"", RemoteReadFailed, ConflictLine, TagAlreadyExists}}

\* what `git diff --name-only --diff-filter=U` can do
DiffOutcomes ==
    {SpawnFailure, Exited(TRUE, "", ""), Exited(TRUE, "a.txt\nb.txt\n", ""),
     Exited(FALSE, "", "fatal: not a git repository\n")}

\* what ssh-keyscan can do
KeyscanOutcomes ==
    {SpawnFailure, Exited(TRUE, "", ""),
     Exited(TRUE, "example.com ssh-ed25519 AAAAC3Nz\n", ""),
     Exited(FALSE, "", "getaddrinfo example.com: Name or service not known\n")}

\* the arguments the messages show
BranchName == "topic"

RemoteName == "origin"

TagName == "v1"

FlowName == "1.0"

(***************************************************************************)
(* State                                                                   *)
(***************************************************************************)

VARIABLES
    pc,     \* position of the running invocation: "idle", a step, or "done"
    op,     \* the operation invoked
    args,   \* its arguments
    procs,  \* the commands it has started so far, in order
    out,    \* the Output of the last command it started
    ret,    \* what it returned (meaningful when pc = "done")
    local,  \* the local variables a multi-step operation carries
    repo,   \* the file FilePath at the last commit, in the index, in the working tree
    held,   \* the DiffInfo the caller was given last, None before the first
    calls,  \* how many hunk operations have been invoked
    app,    \* AppState and the commands that are running on the thread pool
    watch   \* WatcherState, and what the watcher's callback has emitted

vars == <<pc, op, args, procs, out, ret, local, repo, held, calls, app, watch>>

\* no command started yet
NoOutput ==
    [spawned |-> FALSE, success |-> FALSE, stdout |-> "", stderr |-> "", error |-> ""]

\* nothing returned yet
NoRet == [ok |-> FALSE, value |-> <<>>, error |-> ""]

NoArgs == [none |-> TRUE]

NoLocal == [none |-> TRUE]

\* AppState { current_repo_path: Mutex::new(None) } with no command running
NoApp == [current_repo_path |-> None, owner |-> None, threads |-> <<>>]

\* WatcherState::default()
NoWatch == [debouncer |-> None, watched_path |-> None, batch |-> <<>>, emitted |-> <<>>]

\* a repository without the file
NoFile == [head |-> None, index |-> None, workdir |-> None, force_text |-> FALSE]

Init ==
    /\ pc = "idle"
    /\ op = ""
    /\ args = NoArgs
    /\ procs = <<>>
    /\ out = NoOutput
    /\ ret = NoRet
    /\ local = NoLocal
    /\ repo = NoFile
    /\ held = None
    /\ calls = 0
    /\ app = NoApp
    /\ watch = NoWatch

\* the invocation returns r
Done(name, a, p, o, r) ==
    /\ pc' = "done"
    /\ op' = name
    /\ args' = a
    /\ procs' = p
    /\ out' = o
    /\ ret' = r
    /\ local' = NoLocal
    /\ UNCHANGED <<repo, held, calls, app, watch>>

\* the invocation goes on at step label with the locals l; the Output o of
\* the step it leaves is not read again unless l keeps a part of it
Goto(label, name, a, p, o, l) ==
    /\ pc' = label
    /\ op' = name
    /\ args' = a
    /\ procs' = p
    /\ out' = NoOutput
    /\ ret' = NoRet
    /\ local' = l
    /\ UNCHANGED <<repo, held, calls, app, watch>>

\* the caller has the response; the next invocation can start
Reset ==
    /\ pc = "done"
    /\ pc' = "idle"
    /\ op' = ""
    /\ args' = NoArgs
    /\ procs' = <<>>
    /\ out' = NoOutput
    /\ ret' = NoRet
    /\ local' = NoLocal
    /\ UNCHANGED <<repo, held, calls, app, watch>>

(***************************************************************************)
(* Invocations of the operations that start one subprocess                 *)
(***************************************************************************)

GitPull ==
    /\ pc = "idle"
    /\ \E o \in Outcomes :
         Done("git_pull", NoArgs, <<Proc("git pull", NetEnv, o)>>, o, git_pull(o))

GitPush ==
    /\ pc = "idle"
    /\ \E o \in Outcomes :
         Done("git_push", NoArgs, <<Proc("git push", NetEnv, o)>>, o, git_push(o))

GitFetch ==
    /\ pc = "idle"
    /\ \E o \in Outcomes :
         Done("git_fetch", NoArgs, <<Proc("git fetch --all", NetEnv, o)>>, o,
              git_fetch(o))

GitFetchWithOptions ==
    /\ pc = "idle"
    /\ \E o \in Outcomes, all \in BOOLEAN :
         Done("git_fetch_with_options", [all |-> all],
              <<Proc(IF all THEN "git fetch --all" ELSE "git fetch origin",
                     NetEnv, o)>>,
              o, git_fetch_with_options(o))

GitPullWithOptions ==
    /\ pc = "idle"
    /\ \E o \in Outcomes, rebase \in BOOLEAN :
         Done("git_pull_with_options", [rebase |-> rebase],
              <<Proc(IF rebase THEN "git pull --rebase origin topic"
                     ELSE "git pull --no-rebase origin topic", NetEnv, o)>>,
              o, git_pull_with_options(o))

GitPushWithOptions ==
    /\ pc = "idle"
    /\ \E o \in Outcomes, push_tags \in BOOLEAN :
         Done("git_push_with_options", [push_tags |-> push_tags],
              <<Proc(IF push_tags THEN "git push --tags origin topic:topic"
                     ELSE "git push origin topic:topic", NetEnv, o)>>,
              o, git_push_with_options(o))

GitCheckout ==
    /\ pc = "idle"
    /\ \E o \in Outcomes :
         Done("git_checkout", [branch_name |-> BranchName],
              <<Proc("git checkout topic", NoEnv, o)>>, o,
              git_checkout(BranchName, o))

GitCheckoutTrack ==
    /\ pc = "idle"
    /\ \E o \in Outcomes :
         Done("git_checkout_track", [local_branch |-> BranchName],
              <<Proc("git checkout -b topic --track origin/topic", NoEnv, o)>>, o,
              git_checkout_track(BranchName, "origin/topic", o))

GitCommit ==
    /\ pc = "idle"
    /\ \E o \in Outcomes, amend \in BOOLEAN :
         Done("git_commit", [amend |-> amend],
              <<Proc(IF amend THEN "git commit -m msg --amend"
                     ELSE "git commit -m msg", PromptEnv, o)>>,
              o, git_commit(o))

GitAddRemote ==
    /\ pc = "idle"
    /\ \E o \in Outcomes :
         Done("git_add_remote", [name |-> RemoteName],
              <<Proc("git remote add origin url", PromptEnv, o)>>, o,
              git_add_remote(RemoteName, o))

GitTestRemoteConnection ==
    /\ pc = "idle"
    /\ \E o \in Outcomes :
         Done("git_test_remote_connection", NoArgs,
              <<Proc("git ls-remote --exit-code --heads url", PromptEnv, o)>>, o,
              git_test_remote_connection(o))

GitCreateBranch ==
    /\ pc = "idle"
    /\ \E o \in Outcomes, checkout \in BOOLEAN :
         Done("git_create_branch", [checkout |-> checkout],
              <<Proc(IF checkout THEN "git checkout -b topic main"
                     ELSE "git branch topic main", NoEnv, o)>>,
              o, git_create_branch(BranchName, checkout, o))

GitStashSave ==
    /\ pc = "idle"
    /\ \E o \in Outcomes :
         Done("git_stash_save", NoArgs, <<Proc("git stash push", NoEnv, o)>>, o,
              git_stash_save(o))

GitStashApply ==
    /\ pc = "idle"
    /\ \E o \in Outcomes :
         Done("git_stash_apply", NoArgs,
              <<Proc("git stash apply stash@{0}", NoEnv, o)>>, o, git_stash_apply(o))

GitStashPop ==
    /\ pc = "idle"
    /\ \E o \in Outcomes :
         Done("git_stash_pop", NoArgs,
              <<Proc("git stash pop stash@{0}", NoEnv, o)>>, o, git_stash_pop(o))

GitStashDrop ==
    /\ pc = "idle"
    /\ \E o \in Outcomes :
         Done("git_stash_drop", NoArgs,
              <<Proc("git stash drop stash@{0}", NoEnv, o)>>, o,
              git_stash_drop("stash@{0}", o))

GitMerge ==
    /\ pc = "idle"
    /\ \E o \in Outcomes, merge_type \in {"default", "no-ff", "squash"} :
         Done("git_merge", [merge_type |-> merge_type],
              <<Proc(CASE merge_type = "no-ff" -> "git merge --no-ff topic"
                       [] merge_type = "squash" -> "git merge --squash topic"
                       [] OTHER -> "git merge topic", NoEnv, o)>>,
              o, git_merge(BranchName, merge_type, o))

GitMergeAbort ==
    /\ pc = "idle"
    /\ \E o \in Outcomes :
         Done("git_merge_abort", NoArgs, <<Proc("git merge --abort", NoEnv, o)>>, o,
              git_merge_abort(o))

GitRebaseAbort ==
    /\ pc = "idle"
    /\ \E o \in Outcomes :
         Done("git_rebase_abort", NoArgs, <<Proc("git rebase --abort", NoEnv, o)>>,
              o, git_rebase_abort(o))

GitRebaseContinue ==
    /\ pc = "idle"
    /\ \E o \in Outcomes :
         Done("git_rebase_continue", NoArgs,
              <<Proc("git rebase --continue", {"GIT_EDITOR=true"}, o)>>, o,
              git_rebase_continue(o))

GitFlowStart ==
    /\ pc = "idle"
    /\ \E lib \in {"ok", "open", "config"},
          flow_type \in {"feature", "release", "hotfix", "bugfix"} :
         IF lib # "ok" \/ FlowKind(flow_type) = None
         THEN Done("git_flow_start", [flow_type |-> flow_type, lib |-> lib], <<>>,
                   NoOutput, git_flow_start(lib, flow_type, FlowName, NoOutput))
         ELSE \E o \in Outcomes :
                Done("git_flow_start", [flow_type |-> flow_type, lib |-> lib],
                     <<Proc("git checkout -b " \o FlowKind(flow_type)[1].prefix
                            \o FlowName \o " " \o FlowKind(flow_type)[1].base,
                            NoEnv, o)>>,
                     o, git_flow_start(lib, flow_type, FlowName, o))

(***************************************************************************)
(* git_checkout_with_stash(repo_path, branch_name, restore_changes):       *)
(* stash push, checkout, stash pop                                         *)
(***************************************************************************)

\* step 1: git stash push -u -m ...
CheckoutWithStashPush ==
    /\ pc = "idle"
    /\ \E o \in StepOutcomes, restore_changes \in BOOLEAN :
         LET a == [branch_name |-> BranchName, restore_changes |-> restore_changes]
             p == <<Proc("git stash push -u -m Auto-stash", NoEnv, o)>>
         IN  IF ~o.spawned
             THEN Done("git_checkout_with_stash", a, p, o,
                       SpawnErr("Failed to execute git stash", o))
             ELSE IF ~o.success
             THEN Done("git_checkout_with_stash", a, p, o,
                       Ok(TaggedFailure("Failed to stash changes: " \o Trim(o.stderr),
                                        "stash_failed")))
             ELSE Goto("cws_checkout", "git_checkout_with_stash", a, p, o, NoLocal)

\* step 2: git checkout <branch_name>
CheckoutWithStashCheckout ==
    /\ pc = "cws_checkout"
    /\ \E o \in StepOutcomes :
         LET p == Append(procs, Proc("git checkout topic", NoEnv, o))
         IN  IF ~o.spawned
             THEN Done(op, args, p, o, SpawnErr("Failed to execute git checkout", o))
             ELSE IF ~o.success
             THEN Goto("cws_restore", op, args, p, o, [stderr |-> o.stderr])
             ELSE IF args.restore_changes
             THEN Goto("cws_pop", op, args, p, o, NoLocal)
             ELSE Done(op, args, p, o,
                       Ok(GitOperationResult(
                            TRUE,
                            "Switched to '" \o args.branch_name
                            \o "' (changes saved in stash)",
                            None, None, None, None)))

\* the checkout failed: git stash pop, its outcome dropped (let _ = ...)
CheckoutWithStashRestore ==
    /\ pc = "cws_restore"
    /\ \E o \in StepOutcomes :
         Done(op, args, Append(procs, Proc("git stash pop", NoEnv, o)), o,
              Ok(TaggedFailure("Checkout failed (stash restored): "
                               \o Trim(local.stderr), "checkout_failed")))

\* step 3: git stash pop
CheckoutWithStashPop ==
    /\ pc = "cws_pop"
    /\ \E o \in StepOutcomes :
         LET p == Append(procs, Proc("git stash pop", NoEnv, o))
         IN  IF ~o.spawned
             THEN Done(op, args, p, o, SpawnErr("Failed to execute git stash pop", o))
             ELSE IF ~o.success
             THEN Done(op, args, p, o,
                       Ok(GitOperationResult(
                            TRUE,
                            "Switched to '" \o args.branch_name
                            \o "' but failed to restore changes. Your changes are in stash. Error: "
                            \o Trim(o.stderr),
                            None, None, Some("stash_pop_conflict"), None)))
             ELSE Done(op, args, p, o,
                       Ok(GitOperationResult(
                            TRUE,
                            "Switched to '" \o args.branch_name
                            \o "' and restored changes",
                            None, None, None, None)))

(***************************************************************************)
(* git_create_tag(repo_path, tag_name, start_point, message,               *)
(* push_to_remotes): tag, then push --tags                                 *)
(***************************************************************************)

CreateTagTag ==
    /\ pc = "idle"
    /\ \E o \in Outcomes, push_to_remotes \in BOOLEAN,
          message \in {None, Some(" "), Some("msg")} :
         LET annotated == message # None /\ Trim(message[1]) # ""
             a == [tag_name |-> TagName, message |-> message,
                   push_to_remotes |-> push_to_remotes]
             p == <<Proc(IF annotated THEN "git tag -a v1 main -m msg"
                         ELSE "git tag v1 main", NoEnv, o)>>
         IN  IF ~o.spawned
             THEN Done("git_create_tag", a, p, o,
                       SpawnErr(IF annotated THEN "Failed to execute git tag -a"
                                ELSE "Failed to execute git tag", o))
             ELSE IF ~o.success
             THEN Done("git_create_tag", a, p, o,
                       Ok(create_error_result(o.stderr, o.stdout)))
             ELSE IF push_to_remotes
             THEN Goto("tag_push", "git_create_tag", a, p, o, NoLocal)
             ELSE Done("git_create_tag", a, p, o,
                       Ok(create_success_result("Tag '" \o TagName \o "' created")))

CreateTagPush ==
    /\ pc = "tag_push"
    /\ \E o \in StepOutcomes :
         LET p == Append(procs, Proc("git push --tags", NoEnv, o))
         IN  IF ~o.spawned
             THEN Done(op, args, p, o,
                       SpawnErr("Failed to execute git push --tags", o))
             ELSE IF o.success
             THEN Done(op, args, p, o,
                       Ok(create_success_result(
                            "Tag '" \o args.tag_name \o "' created and pushed")))
             ELSE Done(op, args, p, o,
                       Ok(TaggedFailure("Tag '" \o args.tag_name
                                        \o "' created but push failed: "
                                        \o Trim(o.stderr), "push_failed")))

(***************************************************************************)
(* git_rename_branch(repo_path, old_name, new_name, rename_remote,         *)
(* remote_name): branch -m, push, push --delete, branch -u                 *)
(***************************************************************************)

RenamedMessage == "Branch renamed from 'topic' to 'topic2'"

RenameBranchLocal ==
    /\ pc = "idle"
    /\ \E o \in Outcomes, rename_remote \in BOOLEAN,
          remote_name \in {None, Some(RemoteName)} :
         LET a == [rename_remote |-> rename_remote, remote_name |-> remote_name]
             p == <<Proc("git branch -m topic topic2", NoEnv, o)>>
         IN  IF ~o.spawned
             THEN Done("git_rename_branch", a, p, o,
                       SpawnErr("Failed to execute git branch -m", o))
             ELSE IF ~o.success
             THEN Done("git_rename_branch", a, p, o,
                       Ok(create_error_result(o.stderr, o.stdout)))
             ELSE IF rename_remote /\ remote_name # None
             THEN Goto("rename_push", "git_rename_branch", a, p, o, NoLocal)
             ELSE Done("git_rename_branch", a, p, o,
                       Ok(create_success_result(RenamedMessage)))

RenameBranchPush ==
    /\ pc = "rename_push"
    /\ \E o \in StepOutcomes :
         LET p == Append(procs, Proc("git push origin topic2", NoEnv, o))
         IN  IF ~o.spawned
             THEN Done(op, args, p, o, SpawnErr("Failed to push new branch", o))
             ELSE IF ~o.success
             THEN Done(op, args, p, o,
                       Ok(TaggedFailure(
                            "Local branch renamed but failed to push to remote: "
                            \o Trim(o.stderr), "push_failed")))
             ELSE Goto("rename_delete", op, args, p, o, NoLocal)

RenameBranchDeleteOld ==
    /\ pc = "rename_delete"
    /\ \E o \in StepOutcomes :
         LET p == Append(procs, Proc("git push origin --delete topic", NoEnv, o))
         IN  IF ~o.spawned
             THEN Done(op, args, p, o,
                       SpawnErr("Failed to delete old remote branch", o))
             ELSE IF ~o.success
             THEN Done(op, args, p, o,
                       Ok(TaggedFailure(
                            "Branch renamed and pushed, but failed to delete old remote branch: "
                            \o Trim(o.stderr), "delete_remote_failed")))
             ELSE Goto("rename_upstream", op, args, p, o, NoLocal)

RenameBranchUpstream ==
    /\ pc = "rename_upstream"
    /\ \E o \in StepOutcomes :
         LET p == Append(procs, Proc("git branch -u origin/topic2 topic2", NoEnv, o))
         IN  IF ~o.spawned
             THEN Done(op, args, p, o, SpawnErr("Failed to set upstream", o))
             ELSE IF o.success
             THEN Done(op, args, p, o,
                       Ok(create_success_result(RenamedMessage
                                                \o " (local and remote)")))
             ELSE Done(op, args, p, o,
                       Ok(create_success_result(
                            RenamedMessage \o " (upstream may need manual setup)")))

(***************************************************************************)
(* git_delete_branch(repo_path, branch_name, force, delete_remote,         *)
(* remote_name): branch -d/-D, then push --delete                          *)
(***************************************************************************)

DeleteBranchLocal ==
    /\ pc = "idle"
    /\ \E o \in Outcomes, force \in BOOLEAN, delete_remote \in BOOLEAN,
          remote_name \in {None, Some(RemoteName)} :
         LET delete_flag == IF force THEN "-D" ELSE "-d"
             a == [force |-> force, delete_remote |-> delete_remote,
                   remote_name |-> remote_name]
             p == <<Proc("git branch " \o delete_flag \o " topic", NoEnv, o)>>
         IN  IF ~o.spawned
             THEN Done("git_delete_branch", a, p, o,
                       SpawnErr("Failed to execute git branch " \o delete_flag, o))
             ELSE IF ~o.success
             THEN IF Contains(o.stderr, "not fully merged")
                  THEN Done("git_delete_branch", a, p, o,
                            Ok(TaggedFailure(
                                 "Branch '" \o BranchName
                                 \o "' is not fully merged. Use force delete to remove it anyway.",
                                 "not_merged")))
                  ELSE Done("git_delete_branch", a, p, o,
                            Ok(create_error_result(o.stderr, o.stdout)))
             ELSE IF delete_remote /\ remote_name # None
             THEN Goto("delete_remote", "git_delete_branch", a, p, o, NoLocal)
             ELSE Done("git_delete_branch", a, p, o,
                       Ok(create_success_result(
                            "Branch '" \o BranchName \o "' deleted")))

DeleteBranchRemote ==
    /\ pc = "delete_remote"
    /\ \E o \in StepOutcomes :
         LET p == Append(procs, Proc("git push origin --delete topic", NoEnv, o))
         IN  IF ~o.spawned
             THEN Done(op, args, p, o, SpawnErr("Failed to delete remote branch", o))
             ELSE IF ~o.success
             THEN Done(op, args, p, o,
                       Ok(TaggedFailure(
                            "Local branch deleted but failed to delete remote branch: "
                            \o Trim(o.stderr), "delete_remote_failed")))
             ELSE Done(op, args, p, o,
                       Ok(create_success_result(
                            "Branch '" \o BranchName
                            \o "' deleted (local and remote)")))

(***************************************************************************)
(* git_rebase(repo_path, target_branch, options) and                       *)
(* git_interactive_rebase(repo_path, target_branch, entries, autostash):   *)
(* rebase, then on a conflict `git diff --name-only --diff-filter=U`       *)
(***************************************************************************)

RebaseConflictMessage ==
    "Rebase conflicts detected. Please resolve conflicts and run 'git rebase --continue'."

RebaseRun ==
    /\ pc = "idle"
    /\ \E o \in Outcomes, autostash \in BOOLEAN :
         LET a == [target_branch |-> BranchName, autostash |-> autostash]
             p == <<Proc(IF autostash THEN "git rebase --autostash topic"
                         ELSE "git rebase topic", NoEnv, o)>>
         IN  IF ~o.spawned
             THEN Done("git_rebase", a, p, o,
                       SpawnErr("Failed to execute git rebase", o))
             ELSE IF ~o.success
             THEN IF Contains(o.stderr, "CONFLICT")
                     \/ Contains(o.stderr, "conflict")
                     \/ Contains(o.stdout, "CONFLICT")
                     \/ Contains(o.stdout, "could not apply")
                  THEN Goto("rebase_query", "git_rebase", a, p, o, NoLocal)
                  ELSE Done("git_rebase", a, p, o,
                            Ok(create_error_result(o.stderr, o.stdout)))
             ELSE IF Contains(o.stdout, "is up to date")
                     \/ Contains(o.stdout, "Already applied")
             THEN Done("git_rebase", a, p, o,
                       Ok(GitOperationResult(
                            TRUE, "Already up to date, nothing to rebase.",
                            None, None, None, None)))
             ELSE Done("git_rebase", a, p, o,
                       Ok(create_success_result(
                            "Rebase onto '" \o BranchName
                            \o "' completed successfully.")))

\* the conflicted paths: the lines of the query's stdout, or none when the
\* query could not be started
RebaseQuery ==
    /\ pc \in {"rebase_query", "irebase_query"}
    /\ \E o \in DiffOutcomes :
         LET conflicting_files == IF o.spawned THEN Lines(o.stdout) ELSE <<>>
         IN  Done(op, args,
                  Append(procs,
                         Proc("git diff --name-only --diff-filter=U", NoEnv, o)),
                  o,
                  Ok(GitOperationResult(FALSE, RebaseConflictMessage, None, None,
                                        Some("rebase_conflicts"),
                                        Some(conflicting_files))))

\* the todo file and the editor script are written, the script made executable
InteractiveRebasePrepare ==
    /\ pc = "idle"
    /\ \E fs \in {"ok", "todo", "script"}, o \in {SpawnFailure, Exited(TRUE, "", "")},
          autostash \in BOOLEAN :
         LET a == [target_branch |-> BranchName, autostash |-> autostash, fs |-> fs]
         IN  IF fs = "todo"
             THEN Done("git_interactive_rebase", a, <<>>, NoOutput,
                       Err("Failed to write rebase todo file: Permission denied (os error 13)"))
             ELSE IF fs = "script"
             THEN Done("git_interactive_rebase", a, <<>>, NoOutput,
                       Err("Failed to write editor script: Permission denied (os error 13)"))
             ELSE IF ~o.spawned
             THEN Done("git_interactive_rebase", a,
                       <<Proc("chmod +x script", NoEnv, o)>>, o,
                       SpawnErr("Failed to make script executable", o))
             ELSE Goto("irebase_run", "git_interactive_rebase", a,
                       <<Proc("chmod +x script", NoEnv, o)>>, o, NoLocal)

InteractiveRebaseRun ==
    /\ pc = "irebase_run"
    /\ \E o \in Outcomes :
         LET p == Append(procs,
                         Proc(IF args.autostash THEN "git rebase -i --autostash topic"
                              ELSE "git rebase -i topic",
                              {"GIT_SEQUENCE_EDITOR=script", "GIT_EDITOR=true"}, o))
         IN  IF ~o.spawned
             THEN Done(op, args, p, o, SpawnErr("Failed to execute git rebase", o))
             ELSE IF ~o.success
             THEN IF Contains(o.stderr, "CONFLICT")
                     \/ Contains(o.stderr, "conflict")
                     \/ Contains(o.stdout, "CONFLICT")
                     \/ Contains(o.stdout, "conflict")
                  THEN Goto("irebase_query", op, args, p, o, NoLocal)
                  ELSE Done(op, args, p, o,
                            Ok(create_error_result(o.stderr, o.stdout)))
             ELSE IF Contains(o.stdout, "is up to date")
                     \/ Contains(o.stdout, "Already applied")
             THEN Done(op, args, p, o,
                       Ok(GitOperationResult(
                            TRUE, "Already up to date, nothing to rebase.",
                            None, None, None, None)))
             ELSE Done(op, args, p, o,
                       Ok(create_success_result(
                            "Interactive rebase onto '" \o args.target_branch
                            \o "' completed successfully.")))

(***************************************************************************)
(* git_fast_forward(repo_path, branch, remote)                             *)
(***************************************************************************)

FastForwardedMessage == "Fast-forwarded 'topic' from 'origin/topic'"

\* the repository is opened and HEAD read; then the fetch
FastForwardFetch ==
    /\ pc = "idle"
    /\ \E lib \in {"ok", "open", "head"}, is_current_branch \in BOOLEAN :
         LET a == [branch |-> BranchName, lib |-> lib,
                   is_current_branch |-> is_current_branch]
         IN  IF lib # "ok"
             THEN Done("git_fast_forward", a, <<>>, NoOutput, Err(RepoError(lib)))
             ELSE \E o \in Outcomes :
                    IF is_current_branch
                    THEN LET p == <<Proc("git fetch origin topic", NoEnv, o)>>
                         IN  IF ~o.spawned
                             THEN Done("git_fast_forward", a, p, o,
                                       SpawnErr("Failed to execute git fetch", o))
                             ELSE IF ~o.success
                             THEN Done("git_fast_forward", a, p, o,
                                       Ok(create_error_result(o.stderr, "")))
                             ELSE Goto("ffwd_merge", "git_fast_forward", a, p, o,
                                       NoLocal)
                    ELSE LET p == <<Proc("git fetch origin topic:topic", NoEnv, o)>>
                         IN  IF ~o.spawned
                             THEN Done("git_fast_forward", a, p, o,
                                       SpawnErr("Failed to execute git fetch", o))
                             ELSE IF ~o.success
                             THEN IF Contains(o.stderr, "non-fast-forward")
                                  THEN Done("git_fast_forward", a, p, o,
                                            Ok(TaggedFailure(
                                                 "Cannot fast-forward '" \o BranchName
                                                 \o "': local branch has commits not in remote",
                                                 "fast_forward_failed")))
                                  ELSE Done("git_fast_forward", a, p, o,
                                            Ok(create_error_result(o.stderr,
                                                                   o.stdout)))
                             ELSE Done("git_fast_forward", a, p, o,
                                       Ok(create_success_result(
                                            FastForwardedMessage)))

\* the current branch: git merge --ff-only <remote>/<branch>
FastForwardMerge ==
    /\ pc = "ffwd_merge"
    /\ \E o \in Outcomes :
         LET p == Append(procs, Proc("git merge --ff-only origin/topic", NoEnv, o))
         IN  IF ~o.spawned
             THEN Done(op, args, p, o, SpawnErr("Failed to execute git merge", o))
             ELSE IF ~o.success
             THEN IF Contains(o.stderr, "Not possible to fast-forward")
                     \/ Contains(o.stderr, "fatal")
                  THEN Done(op, args, p, o,
                            Ok(TaggedFailure(
                                 "Cannot fast-forward '" \o args.branch
                                 \o "': branches have diverged or are up to date",
                                 "fast_forward_failed")))
                  ELSE Done(op, args, p, o,
                            Ok(create_error_result(o.stderr, o.stdout)))
             ELSE Done(op, args, p, o,
                       Ok(create_success_result(FastForwardedMessage)))

(***************************************************************************)
(* add_ssh_known_host(host) and git_flow_init(...)                         *)
(***************************************************************************)

\* fn add_ssh_known_host(host); fs names the file-system step that fails
add_ssh_known_host(host, o, fs) ==
    IF ~o.spawned THEN SpawnErr("Failed to execute ssh-keyscan", o)
    ELSE IF ~o.success
    THEN Ok(TaggedFailure("Failed to scan host keys: " \o o.stderr,
                          "ssh_keyscan_failed"))
    ELSE IF Trim(o.stdout) = ""
    THEN Ok(TaggedFailure("No host keys found for this host", "no_host_keys"))
    ELSE IF fs = "home" THEN Err("Could not determine home directory")
    ELSE IF fs = "mkdir"
    THEN Err("Failed to create .ssh directory: Permission denied (os error 13)")
    ELSE IF fs = "open"
    THEN Err("Failed to open known_hosts: Permission denied (os error 13)")
    ELSE IF fs = "write"
    THEN Err("Failed to write to known_hosts: No space left on device (os error 28)")
    ELSE Ok(create_success_result("Host '" \o host \o "' added to known hosts"))

AddSshKnownHost ==
    /\ pc = "idle"
    /\ \E o \in KeyscanOutcomes, fs \in {"ok", "home", "mkdir", "open", "write"} :
         Done("add_ssh_known_host", [host |-> "example.com", fs |-> fs],
              <<Proc("ssh-keyscan -t ed25519,rsa,ecdsa example.com", NoEnv, o)>>, o,
              add_ssh_known_host("example.com", o, fs))

\* fn git_flow_init(...): libgit2 only; lib names the step that fails
git_flow_init(lib, develop_exists) ==
    IF lib = "open" THEN Err(RepoError("open"))
    ELSE IF lib = "config" THEN Err("Failed to get config: config file is locked")
    ELSE IF lib = "set"
    THEN Err("Failed to set gitflow.branch.master: config file is locked")
    ELSE IF ~develop_exists /\ lib = "no_master"
    THEN Err("Production branch '" \o MasterBranch \o "' not found")
    ELSE IF ~develop_exists /\ lib = "peel"
    THEN Err("Failed to get commit from master branch: object not found")
    ELSE IF ~develop_exists /\ lib = "branch"
    THEN Err("Failed to create develop branch: reference already exists")
    ELSE Ok(create_success_result(
              "Git Flow initialized with production branch '" \o MasterBranch
              \o "' and development branch '" \o DevelopBranch \o "'"))

GitFlowInit ==
    /\ pc = "idle"
    /\ \E lib \in {"ok", "open", "config", "set", "no_master", "peel", "branch"},
          develop_exists \in BOOLEAN :
         Done("git_flow_init", [lib |-> lib, develop_exists |-> develop_exists],
              <<>>, NoOutput, git_flow_init(lib, develop_exists))

(***************************************************************************)
(* git_flow_finish(repo_path, flow_type, name, delete_branch): for each    *)
(* target branch checkout and merge --no-ff; then the tag, the branch      *)
(* deletion and the checkout of the development branch                     *)
(***************************************************************************)

\* messages.join(sep)
RECURSIVE Join(_, _)
Join(messages, sep) ==
    IF messages = <<>> THEN ""
    ELSE IF Len(messages) = 1 THEN messages[1]
    ELSE messages[1] \o sep \o Join(Tail(messages), sep)

\* where the invocation goes once every target branch is merged
AfterMerges(a) ==
    IF FlowKind(a.flow_type)[1].create_tag THEN "flow_tag_checkout"
    ELSE IF a.delete_branch THEN "flow_delete"
    ELSE "flow_back"

\* the repository and the git-flow configuration are read
FlowFinishBegin ==
    /\ pc = "idle"
    /\ \E lib \in {"ok", "open", "config"},
          flow_type \in {"feature", "release", "hotfix", "bugfix"},
          delete_branch \in BOOLEAN :
         LET a == [flow_type |-> flow_type, name |-> FlowName,
                   delete_branch |-> delete_branch, lib |-> lib]
         IN  IF lib # "ok"
             THEN Done("git_flow_finish", a, <<>>, NoOutput, Err(RepoError(lib)))
             ELSE IF FlowKind(flow_type) = None
             THEN Done("git_flow_finish", a, <<>>, NoOutput,
                       Ok(create_error_result("Unknown flow type: " \o flow_type, "")))
             ELSE Goto("flow_checkout", "git_flow_finish", a, <<>>, NoOutput,
                       [i |-> 1, messages |-> <<>>])

\* git checkout <target>
FlowFinishCheckout ==
    /\ pc = "flow_checkout"
    /\ \E o \in StepOutcomes :
         LET target == FlowKind(args.flow_type)[1].targets[local.i]
             p == Append(procs, Proc("git checkout " \o target, NoEnv, o))
         IN  IF ~o.spawned
             THEN Done(op, args, p, o, SpawnErr("Failed to execute git checkout", o))
             ELSE IF ~o.success
             THEN Done(op, args, p, o,
                       Ok(create_error_result(
                            "Failed to checkout '" \o target \o "': " \o o.stderr, "")))
             ELSE Goto("flow_merge", op, args, p, o, local)

\* a finish that takes a merge that failed without a conflict for done
FlowFinishMergeGoesOn ==
    /\ pc = "flow_merge"
    /\ \E o \in StepOutcomes :
         LET kind == FlowKind(args.flow_type)[1]
             target == kind.targets[local.i]
             p == Append(procs,
                         Proc("git merge --no-ff -m msg " \o kind.prefix \o args.name,
                              NoEnv, o))
         IN  IF ~o.spawned
             THEN Done(op, args, p, o, SpawnErr("Failed to execute git merge", o))
             ELSE IF ~o.success /\ (Contains(o.stderr, "CONFLICT")
                                     \/ Contains(o.stderr, "Automatic merge failed"))
             THEN Done(op, args, p, o,
                       Ok(TaggedFailure(
                            "Merge conflict while merging into '" \o target
                            \o "'. Please resolve conflicts manually.",
                            "merge_conflict")))
             ELSE LET l == [i |-> local.i + 1,
                            messages |-> Append(local.messages,
                                                "Merged into '" \o target \o "'")]
                  IN  IF local.i < Len(kind.targets)
                      THEN Goto("flow_checkout", op, args, p, o, l)
                      ELSE Goto(AfterMerges(args), op, args, p, o, l)

\* git merge --no-ff -m <message> <branch>
FlowFinishMerge ==
    /\ pc = "flow_merge"
    /\ \E o \in StepOutcomes :
         LET kind == FlowKind(args.flow_type)[1]
             target == kind.targets[local.i]
             p == Append(procs,
                         Proc("git merge --no-ff -m msg " \o kind.prefix \o args.name,
                              NoEnv, o))
         IN  IF ~o.spawned
             THEN Done(op, args, p, o, SpawnErr("Failed to execute git merge", o))
             ELSE IF ~o.success
             THEN IF Contains(o.stderr, "CONFLICT")
                     \/ Contains(o.stderr, "Automatic merge failed")
                  THEN Done(op, args, p, o,
                            Ok(TaggedFailure(
                                 "Merge conflict while merging into '" \o target
                                 \o "'. Please resolve conflicts manually.",
                                 "merge_conflict")))
                  ELSE Done(op, args, p, o,
                            Ok(create_error_result(
                                 "Failed to merge into '" \o target \o "': "
                                 \o o.stderr, "")))
             ELSE LET l == [i |-> local.i + 1,
                            messages |-> Append(local.messages,
                                                "Merged into '" \o target \o "'")]
                  IN  IF local.i < Len(kind.targets)
                      THEN Goto("flow_checkout", op, args, p, o, l)
                      ELSE Goto(AfterMerges(args), op, args, p, o, l)

\* git checkout <master>, its outcome dropped (let _ = ...)
FlowFinishTagCheckout ==
    /\ pc = "flow_tag_checkout"
    /\ \E o \in StepOutcomes :
         Goto("flow_tag", op, args,
              Append(procs, Proc("git checkout " \o MasterBranch, NoEnv, o)), o, local)

\* git tag -a <name> -m <message>
FlowFinishTag ==
    /\ pc = "flow_tag"
    /\ \E o \in StepOutcomes :
         LET p == Append(procs, Proc("git tag -a " \o args.name \o " -m msg", NoEnv, o))
             messages ==
                 IF ~o.spawned THEN local.messages
                 ELSE IF o.success
                 THEN Append(local.messages, "Created tag '" \o args.name \o "'")
                 ELSE IF ~Contains(o.stderr, "already exists")
                 THEN Append(local.messages,
                             "Warning: Could not create tag: " \o o.stderr)
                 ELSE local.messages
         IN  IF ~o.spawned
             THEN Done(op, args, p, o, SpawnErr("Failed to create tag", o))
             ELSE Goto(IF args.delete_branch THEN "flow_delete" ELSE "flow_back",
                       op, args, p, o, [local EXCEPT !.messages = messages])

\* git branch -d <branch>
FlowFinishDelete ==
    /\ pc = "flow_delete"
    /\ \E o \in StepOutcomes :
         LET branch_name == FlowKind(args.flow_type)[1].prefix \o args.name
             p == Append(procs, Proc("git branch -d " \o branch_name, NoEnv, o))
         IN  IF ~o.spawned
             THEN Done(op, args, p, o, SpawnErr("Failed to delete branch", o))
             ELSE IF o.success
             THEN Goto("flow_back", op, args, p, o,
                       [local EXCEPT !.messages =
                            Append(@, "Deleted branch '" \o branch_name \o "'")])
             ELSE Goto("flow_force_delete", op, args, p, o, local)

\* a finish that starts `git branch -d` a second time after it failed
FlowFinishRetryDelete ==
    /\ pc = "flow_force_delete"
    /\ \E o \in StepOutcomes :
         LET branch_name == FlowKind(args.flow_type)[1].prefix \o args.name
             p == Append(procs, Proc("git branch -d " \o branch_name, NoEnv, o))
         IN  Goto("flow_back", op, args, p, o,
                  IF o.spawned /\ o.success
                  THEN [local EXCEPT !.messages =
                            Append(@, "Deleted branch '" \o branch_name \o "'")]
                  ELSE local)

\* git branch -D <branch>; a failure to start it or of it changes nothing
FlowFinishForceDelete ==
    /\ pc = "flow_force_delete"
    /\ \E o \in StepOutcomes :
         LET branch_name == FlowKind(args.flow_type)[1].prefix \o args.name
             p == Append(procs, Proc("git branch -D " \o branch_name, NoEnv, o))
         IN  Goto("flow_back", op, args, p, o,
                  IF o.spawned /\ o.success
                  THEN [local EXCEPT !.messages =
                            Append(@, "Deleted branch '" \o branch_name
                                      \o "' (force)")]
                  ELSE local)

\* git checkout <develop>, its outcome dropped; the operation succeeds
FlowFinishBack ==
    /\ pc = "flow_back"
    /\ \E o \in StepOutcomes :
         Done(op, args,
              Append(procs, Proc("git checkout " \o DevelopBranch, NoEnv, o)), o,
              Ok(create_success_result(Join(local.messages, ". "))))

SingleStep ==
    \/ GitPull \/ GitPush \/ GitFetch
    \/ GitFetchWithOptions \/ GitPullWithOptions \/ GitPushWithOptions
    \/ GitCheckout \/ GitCheckoutTrack \/ GitCommit \/ GitAddRemote
    \/ GitTestRemoteConnection \/ GitCreateBranch
    \/ GitStashSave \/ GitStashApply \/ GitStashPop \/ GitStashDrop
    \/ GitMerge \/ GitMergeAbort \/ GitRebaseAbort \/ GitRebaseContinue
    \/ GitFlowStart

CheckoutWithStash ==
    \/ CheckoutWithStashPush \/ CheckoutWithStashCheckout
    \/ CheckoutWithStashRestore \/ CheckoutWithStashPop

CreateTag == CreateTagTag \/ CreateTagPush

RenameBranch ==
    \/ RenameBranchLocal \/ RenameBranchPush
    \/ RenameBranchDeleteOld \/ RenameBranchUpstream

DeleteBranch == DeleteBranchLocal \/ DeleteBranchRemote

Rebase == RebaseRun \/ RebaseQuery

InteractiveRebase == InteractiveRebasePrepare \/ InteractiveRebaseRun

FastForward == FastForwardFetch \/ FastForwardMerge

FlowFinish ==
    \/ FlowFinishBegin \/ FlowFinishCheckout \/ FlowFinishMerge
    \/ FlowFinishTagCheckout \/ FlowFinishTag \/ FlowFinishDelete
    \/ FlowFinishForceDelete \/ FlowFinishBack

Next ==
    \/ SingleStep
    \/ CheckoutWithStash \/ CreateTag \/ RenameBranch \/ DeleteBranch
    \/ Rebase \/ InteractiveRebase \/ FastForward
    \/ AddSshKnownHost \/ GitFlowInit \/ FlowFinish
    \/ Reset

Spec == Init /\ [][Next]_vars

\* the invocations of git_flow_finish alone
NextFlow == FlowFinish \/ Reset

SpecFlow == Init /\ [][NextFlow]_vars

(***************************************************************************)
(* The classifier alone: create_error_result and the functions it is made  *)
(* of, applied to every stderr of at most MaxFrags fragments and every     *)
(* stdout of ClassifyStdouts.                                              *)
(***************************************************************************)

InitClassify ==
    /\ pc = "classify"
    /\ op = "create_error_result"
    /\ \E stderr \in Texts(MaxFrags) \cup OtherLines, stdout \in ClassifyStdouts :
         args = [stderr |-> stderr, stdout |-> stdout]
    /\ procs = <<>>
    /\ out = NoOutput
    /\ ret = NoRet
    /\ local = NoLocal
    /\ repo = NoFile
    /\ held = None
    /\ calls = 0
    /\ app = NoApp
    /\ watch = NoWatch

\* create_error_result on the input
Classify ==
    /\ pc = "classify"
    /\ pc' = "done"
    /\ ret' = Ok(create_error_result(args.stderr, args.stdout))
    /\ UNCHANGED <<op, args, procs, out, local, repo, held, calls, app, watch>>

NextClassify == Classify

SpecClassify == InitClassify /\ [][NextClassify]_vars

(***************************************************************************)
(* Diffs and hunks: repository.rs, lines 364-388 and 477-940.  A file is a *)
(* sequence of lines, each stored with its "\n" (the last line of a file   *)
(* may have none); an absent file is None and a file that is there is      *)
(* Some(lines).                                                            *)
(***************************************************************************)

\* the path of the one file the hunk operations work on
FilePath == "notes.txt"

\* the text of a file: its lines, one after the other
RECURSIVE Text(_)
Text(lines) == IF lines = <<>> THEN "" ELSE Head(lines) \o Text(Tail(lines))

\* the byte 0, written as a text that no line of a text file holds
Nul == "^@"

\* fn is_binary_content(content): a null byte in the first 8000 bytes
is_binary_content(content) ==
    LET check_len == IF Len(content) < 8000 THEN Len(content) ELSE 8000
    IN  Contains(SubSeq(content, 1, check_len), Nul)

\* fn get_binary_type(file_path)
get_binary_type(file_path) ==
    LET EndsWith(lower, ext) ==
            Len(lower) >= Len(ext)
            /\ SubSeq(lower, Len(lower) - Len(ext) + 1, Len(lower)) = ext
        Type(lower) ==
            IF \E ext \in {".png", ".jpg", ".jpeg", ".gif", ".bmp", ".webp", ".svg",
                           ".ico"} : EndsWith(lower, ext)
            THEN Some("image")
            ELSE IF EndsWith(lower, ".pdf") THEN Some("pdf")
            ELSE Some("other")
    IN  Type(ToLowercase(file_path))

\* struct DiffInfo
DiffInfo(file_path, old_content, new_content, hunks, is_binary, binary_type, file_size) ==
    [file_path |-> file_path, old_content |-> old_content,
     new_content |-> new_content, hunks |-> hunks, is_binary |-> is_binary,
     binary_type |-> binary_type, file_size |-> file_size]

\* a serialization that keeps the content of a line as it was given
GeneratePatchAsGiven(file_path, hunk) ==
    LET Prefix(line_type) ==
            CASE line_type = "add" -> "+"
              [] line_type = "delete" -> "-"
              [] OTHER -> " "
        RECURSIVE Body(_)
        Body(lines) ==
            IF lines = <<>> THEN ""
            ELSE Prefix(Head(lines).line_type) \o Head(lines).content
                 \o "\n" \o Body(Tail(lines))
    IN  "diff --git a/" \o file_path \o " b/" \o file_path \o "\n"
        \o "--- a/" \o file_path \o "\n"
        \o "+++ b/" \o file_path \o "\n"
        \o "@@ -" \o ToString(hunk.old_start) \o "," \o ToString(hunk.old_lines)
        \o " +" \o ToString(hunk.new_start) \o "," \o ToString(hunk.new_lines)
        \o " @@\n"
        \o Body(hunk.lines)

\* a serialization that writes the new range before the old one
GeneratePatchNewFirst(file_path, hunk) ==
    LET Prefix(line_type) ==
            CASE line_type = "add" -> "+"
              [] line_type = "delete" -> "-"
              [] OTHER -> " "
        Stripped(content) ==
            LET Keep(i) == IF i = 0 THEN "" ELSE SubSeq(content, 1, i)
            IN  Keep(Last({i \in 1..Len(content) :
                              SubSeq(content, i, i) \notin {"\n", "\r"}}))
        RECURSIVE Body(_)
        Body(lines) ==
            IF lines = <<>> THEN ""
            ELSE Prefix(Head(lines).line_type) \o Stripped(Head(lines).content)
                 \o "\n" \o Body(Tail(lines))
    IN  "diff --git a/" \o file_path \o " b/" \o file_path \o "\n"
        \o "--- a/" \o file_path \o "\n"
        \o "+++ b/" \o file_path \o "\n"
        \o "@@ -" \o ToString(hunk.new_start) \o "," \o ToString(hunk.new_lines)
        \o " +" \o ToString(hunk.old_start) \o "," \o ToString(hunk.old_lines)
        \o " @@\n"
        \o Body(hunk.lines)

\* fn generate_patch(file_path, hunk): hunk is a HunkData, its lines are
\* HunkLineData [content, line_type]
generate_patch(file_path, hunk) ==
    LET Prefix(line_type) ==
            CASE line_type = "add" -> "+"
              [] line_type = "delete" -> "-"
              [] line_type = "context" -> " "
              [] OTHER -> " "
        \* trim_end_matches(|c| c == '\n' || c == '\r')
        Stripped(content) ==
            LET Keep(i) == IF i = 0 THEN "" ELSE SubSeq(content, 1, i)
            IN  Keep(Last({i \in 1..Len(content) :
                              SubSeq(content, i, i) \notin {"\n", "\r"}}))
        RECURSIVE Body(_)
        Body(lines) ==
            IF lines = <<>> THEN ""
            ELSE Prefix(Head(lines).line_type) \o Stripped(Head(lines).content)
                 \o "\n" \o Body(Tail(lines))
    IN  "diff --git a/" \o file_path \o " b/" \o file_path \o "\n"
        \o "--- a/" \o file_path \o "\n"
        \o "+++ b/" \o file_path \o "\n"
        \o "@@ -" \o ToString(hunk.old_start) \o "," \o ToString(hunk.old_lines)
        \o " +" \o ToString(hunk.new_start) \o "," \o ToString(hunk.new_lines)
        \o " @@\n"
        \o Body(hunk.lines)

\* an untracked diff whose line numbers start at 0
UntrackedFromZero(file, file_path) ==
    LET Added(lines) ==
            [i \in 1..Len(lines) |->
                [content |-> lines[i] \o "\n", line_type |-> "add",
                 old_line_no |-> None, new_line_no |-> Some(i - 1)]]
        Hunk(lines) ==
            [old_start |-> 0, old_lines |-> 0, new_start |-> 1,
             new_lines |-> Len(lines), lines |-> Added(lines)]
    IN  IF file = None THEN Err("No such file or directory (os error 2)")
        ELSE Ok(DiffInfo(file_path, None, Some(Text(file[1])),
                         <<Hunk(Lines(Text(file[1])))>>, FALSE, None,
                         Some(Len(Text(file[1])))))

\* fn get_untracked_file_diff(repo, file_path): file is the file of the
\* working tree, None when it cannot be read
get_untracked_file_diff(file, file_path) ==
    LET Added(lines) ==
            [i \in 1..Len(lines) |->
                [content |-> lines[i] \o "\n", line_type |-> "add",
                 old_line_no |-> None, new_line_no |-> Some(i)]]
        Hunk(lines) ==
            [old_start |-> 0, old_lines |-> 0, new_start |-> 1,
             new_lines |-> Len(lines), lines |-> Added(lines)]
        Of(content) ==
            IF is_binary_content(content)
            THEN Ok(DiffInfo(file_path, None, None, <<>>, TRUE,
                             get_binary_type(file_path), Some(Len(content))))
            ELSE Ok(DiffInfo(file_path, None, Some(content),
                             <<Hunk(Lines(content))>>, FALSE, None,
                             Some(Len(content))))
    IN  IF file = None THEN Err("No such file or directory (os error 2)")
        ELSE Of(Text(file[1]))

\* a deleted diff that numbers the lines on the new side
DeletedOnNewSide(file, file_path) ==
    LET Deleted(lines) ==
            [i \in 1..Len(lines) |->
                [content |-> lines[i] \o "\n", line_type |-> "delete",
                 old_line_no |-> None, new_line_no |-> Some(i)]]
        Hunk(lines) ==
            [old_start |-> 1, old_lines |-> Len(lines), new_start |-> 0,
             new_lines |-> 0, lines |-> Deleted(lines)]
    IN  IF file = None
        THEN Err("the path '" \o file_path \o "' does not exist in the given tree")
        ELSE Ok(DiffInfo(file_path, Some(Text(file[1])), None,
                         <<Hunk(Lines(Text(file[1])))>>, FALSE, None,
                         Some(Len(Text(file[1])))))

\* fn get_deleted_file_diff(repo, file_path): file is the file of the last
\* commit, None when the commit has no such path
get_deleted_file_diff(file, file_path) ==
    LET Deleted(lines) ==
            [i \in 1..Len(lines) |->
                [content |-> lines[i] \o "\n", line_type |-> "delete",
                 old_line_no |-> Some(i), new_line_no |-> None]]
        Hunk(lines) ==
            [old_start |-> 1, old_lines |-> Len(lines), new_start |-> 0,
             new_lines |-> 0, lines |-> Deleted(lines)]
        Of(content) ==
            IF is_binary_content(content)
            THEN Ok(DiffInfo(file_path, None, None, <<>>, TRUE,
                             get_binary_type(file_path), Some(Len(content))))
            ELSE Ok(DiffInfo(file_path, Some(content), None,
                             <<Hunk(Lines(content))>>, FALSE, None,
                             Some(Len(content))))
    IN  IF file = None
        THEN Err("the path '" \o file_path \o "' does not exist in the given tree")
        ELSE Of(Text(file[1]))

\* What the diff library can deliver for the change of one file from old to
\* new: whether the delta is binary, and the hunks with their lines (origin,
\* content, line numbers).  A file that fits in the context of its change
\* makes one hunk; its lines are an edit script from old to new that keeps a
\* longest common subsequence as context and puts the deleted lines of a
\* change before the added ones.  Which such script is delivered is up to the
\* library.  The library calls the delta binary when one of the two contents
\* has a null byte in its first 8000 bytes, unless the attributes of the
\* repository give the path the diff attribute (force_text): then it
\* delivers the hunks of a text.
Git2Diff(old, new, force_text) ==
    LET Line(origin, content) == [origin |-> origin, content |-> content]
        RECURSIVE Scripts(_, _)
        Scripts(o, n) ==
            IF o = <<>> /\ n = <<>> THEN {<<>>}
            ELSE (IF o # <<>> /\ n # <<>> /\ Head(o) = Head(n)
                  THEN {<<Line(" ", Head(o))>> \o t : t \in Scripts(Tail(o), Tail(n))}
                  ELSE {})
                 \cup (IF o # <<>>
                       THEN {<<Line("-", Head(o))>> \o t : t \in Scripts(Tail(o), n)}
                       ELSE {})
                 \cup (IF n # <<>>
                       THEN {<<Line("+", Head(n))>> \o t : t \in Scripts(o, Tail(n))}
                       ELSE {})
        Context(t) == Cardinality({i \in 1..Len(t) : t[i].origin = " "})
        Ordered(t) ==
            \A i \in 1..(Len(t) - 1) : ~(t[i].origin = "+" /\ t[i + 1].origin = "-")
        Best(all) ==
            {t \in all : Ordered(t) /\ \A u \in all : Context(u) <= Context(t)}
        Count(t, i, origins) ==
            Cardinality({j \in 1..i : t[j].origin \in origins})
        Terminated(content) ==
            content # "" /\ SubSeq(content, Len(content), Len(content)) = "\n"
        \* the number the library gives a line: the start of the hunk plus the
        \* line breaks of the lines of that side before it
        Number(t, i, origins) ==
            1 + Cardinality({j \in 1..(i - 1) :
                                t[j].origin \in origins /\ Terminated(t[j].content)})
        Delivered(t, i) ==
            [origin |-> t[i].origin, content |-> t[i].content,
             old_lineno |-> IF t[i].origin = "+" THEN None
                            ELSE Some(Number(t, i, {" ", "-"})),
             new_lineno |-> IF t[i].origin = "-" THEN None
                            ELSE Some(Number(t, i, {" ", "+"}))]
        \* the marker that follows a line without a line break: "=" after a
        \* context line, ">" after a deleted one, "<" after an added one, with
        \* the line numbers of the sides of the line it follows
        Marker(line) ==
            [line EXCEPT !.origin = CASE line.origin = "+" -> "<"
                                      [] line.origin = "-" -> ">"
                                      [] OTHER -> "=",
                         !.content = "\n\\ No newline at end of file\n"]
        RECURSIVE Rest(_, _)
        Rest(t, i) ==
            IF i > Len(t) THEN <<>>
            ELSE <<Delivered(t, i)>>
                 \o (IF Terminated(t[i].content) THEN <<>>
                     ELSE <<Marker(Delivered(t, i))>>)
                 \o Rest(t, i + 1)
        Numbered(t) == Rest(t, 1)
        Hunk(o, n, t) ==
            [old_start |-> IF o = <<>> THEN 0 ELSE 1, old_lines |-> Len(o),
             new_start |-> IF n = <<>> THEN 0 ELSE 1, new_lines |-> Len(n),
             lines |-> Numbered(t)]
        Changed(o, n) ==
            IF ~force_text /\ (is_binary_content(Text(o)) \/ is_binary_content(Text(n)))
            THEN {[binary |-> TRUE, hunks |-> <<>>]}
            ELSE IF o = n THEN {[binary |-> FALSE, hunks |-> <<>>]}
            ELSE {[binary |-> FALSE, hunks |-> <<Hunk(o, n, t)>>] :
                     t \in Best(Scripts(o, n))}
        Content(file) == IF file = None THEN <<>> ELSE file[1]
    IN  IF old = new THEN {[binary |-> FALSE, hunks |-> <<>>]}
        ELSE Changed(Content(old), Content(new))

\* fn parse_diff(diff, file_path): diff is one delivery of the library
parse_diff(diff, file_path) ==
    LET LineType(origin) ==
            CASE origin = "+" -> "add"
              [] origin = "-" -> "delete"
              [] origin = " " -> "context"
              [] OTHER -> "context"
        DiffLines(lines) ==
            [i \in 1..Len(lines) |->
                [content |-> lines[i].content,
                 line_type |-> LineType(lines[i].origin),
                 old_line_no |-> lines[i].old_lineno,
                 new_line_no |-> lines[i].new_lineno]]
        DiffHunks(hunks) ==
            [i \in 1..Len(hunks) |->
                [old_start |-> hunks[i].old_start, old_lines |-> hunks[i].old_lines,
                 new_start |-> hunks[i].new_start, new_lines |-> hunks[i].new_lines,
                 lines |-> DiffLines(hunks[i].lines)]]
    IN  Ok(DiffInfo(file_path, None, None, DiffHunks(diff.hunks), diff.binary,
                    IF diff.binary THEN get_binary_type(file_path) ELSE None, None))

\* fn get_working_diff(repo, file_path, staged) of repository.rs: the results
\* it can return, one for each delivery of the library.  The comparison of the
\* index with the working tree does not report a file that is not in the
\* index.
get_working_diff(r, file_path, staged) ==
    {parse_diff(d, file_path) :
        d \in IF staged THEN Git2Diff(r.head, r.index, r.force_text)
              ELSE IF r.index = None THEN {[binary |-> FALSE, hunks |-> <<>>]}
              ELSE Git2Diff(r.index, r.workdir, r.force_text)}

\* fn get_working_diff(file_path, staged, file_status, state) of commands.rs,
\* with a repository opened: the results it can return
get_working_diff_command(r, file_path, staged, file_status) ==
    IF file_status = "untracked"
    THEN {get_untracked_file_diff(r.workdir, file_path)}
    ELSE IF file_status = "deleted" /\ ~staged
    THEN {get_deleted_file_diff(r.head, file_path)}
    ELSE {IF diff.value.hunks = <<>> /\ file_status = "new"
          THEN get_untracked_file_diff(r.workdir, file_path)
          ELSE diff :
             diff \in get_working_diff(r, file_path, staged)}

\* What `git apply --unidiff-zero [--cached] [--reverse]` does with the patch
\* it reads, on the one file it is pointed at (the file of the index with
\* --cached, the file of the working tree without).  It reads the lines of the
\* hunk until it has the numbers of old and new lines its header states; a
\* line it cannot count, or a hunk that neither adds nor deletes a line, makes
\* the patch corrupt, and what follows the hunk is not read.  Every line it
\* has read ends with a line break.  It looks for the lines the hunk expects
\* (its context and deleted lines, or context and added lines with
\* --reverse), at the beginning when the hunk starts at line 0 and otherwise
\* as near as possible to the line the hunk names, and replaces them; when
\* they are nowhere it fails and changes nothing.
GitApply(patch, cached, reverse, file) ==
    LET RECURSIVE Nat10(_)
        Nat10(digits) ==
            IF digits = "" THEN 0
            ELSE 10 * Nat10(SubSeq(digits, 1, Len(digits) - 1))
                 + (CHOOSE d \in 0..9 :
                      ToString(d) = SubSeq(digits, Len(digits), Len(digits)))
        Until(text, mark) == SubSeq(text, 1, Find(text, mark) - 1)
        After(text, mark) == SubSeq(text, Find(text, mark) + Len(mark), Len(text))
        Path(rows) == After(rows[2], "--- a/")
        OldRange(header) == Until(After(header, "@@ -"), " +")
        NewRange(header) == Until(After(header, " +"), " @@")
        Start(range) == Nat10(Until(range, ","))
        Count(range) == Nat10(After(range, ","))
        Body(rows) == SubSeq(rows, 5, Len(rows))
        Mark(row) == IF row = "" THEN " " ELSE SubSeq(row, 1, 1)
        Line(row) == SubSeq(row, 2, Len(row)) \o "\n"
        Corrupt == [corrupt |-> TRUE, pre |-> <<>>, post |-> <<>>]
        RECURSIVE Fragment(_, _, _, _, _, _)
        Fragment(body, old, new, pre, post, changes) ==
            IF old = 0 /\ new = 0
            THEN [corrupt |-> ~changes, pre |-> pre, post |-> post]
            ELSE IF body = <<>> THEN Corrupt
            ELSE CASE Mark(Head(body)) = " " /\ old > 0 /\ new > 0 ->
                        Fragment(Tail(body), old - 1, new - 1,
                                 Append(pre, Line(Head(body))),
                                 Append(post, Line(Head(body))), changes)
                   [] Mark(Head(body)) = "-" /\ old > 0 ->
                        Fragment(Tail(body), old - 1, new,
                                 Append(pre, Line(Head(body))), post, TRUE)
                   [] Mark(Head(body)) = "+" /\ new > 0 ->
                        Fragment(Tail(body), old, new - 1, pre,
                                 Append(post, Line(Head(body))), TRUE)
                   [] Mark(Head(body)) = "\\" ->
                        Fragment(Tail(body), old, new, pre, post, changes)
                   [] OTHER -> Corrupt
        Abs(x) == IF x < 0 THEN -x ELSE x
        Min(x, y) == IF x < y THEN x ELSE y
        \* the lines of a text, each with its line break
        RECURSIVE Relined(_)
        Relined(text) ==
            IF text = "" THEN <<>>
            ELSE IF Find(text, "\n") = 0 THEN <<text>>
            ELSE <<SubSeq(text, 1, Find(text, "\n"))>>
                 \o Relined(SubSeq(text, Find(text, "\n") + 1, Len(text)))
        Replace(img, at, pre, post) ==
            Relined(Text(SubSeq(img, 1, at) \o post
                         \o SubSeq(img, at + Len(pre) + 1, Len(img))))
        Search(img, pre, post, oldpos, newpos, path) ==
            LET line == Min(IF oldpos = 0 \/ newpos = 0 THEN 0 ELSE newpos - 1,
                            Len(img))
                Fits == {at \in 0..(Len(img) - Len(pre)) :
                            /\ SubSeq(img, at + 1, at + Len(pre)) = pre
                            /\ oldpos = 0 => at = 0}
                Rank(at) == 2 * Abs(at - line) - (IF at > line THEN 1 ELSE 0)
                Nearest == CHOOSE at \in Fits : \A other \in Fits : Rank(at) <= Rank(other)
            IN  IF Fits = {}
                THEN [success |-> FALSE, file |-> Some(img),
                      stderr |-> "error: patch failed: " \o path \o ":"
                                 \o ToString(oldpos) \o "\nerror: " \o path
                                 \o ": patch does not apply\n"]
                ELSE [success |-> TRUE, stderr |-> "",
                      file |-> Some(Replace(img, Nearest, pre, post))]
        Applied(rows, fragment) ==
            IF fragment.corrupt
            THEN [success |-> FALSE, file |-> file,
                  stderr |-> "error: corrupt patch at line "
                             \o ToString(Len(rows) + 1) \o "\n"]
            ELSE IF file = None
            THEN [success |-> FALSE, file |-> None,
                  stderr |-> "error: " \o Path(rows)
                             \o (IF cached THEN ": does not exist in index\n"
                                 ELSE ": No such file or directory\n")]
            ELSE IF reverse
            THEN Search(file[1], fragment.post, fragment.pre,
                        Start(NewRange(rows[4])), Start(OldRange(rows[4])),
                        Path(rows))
            ELSE Search(file[1], fragment.pre, fragment.post,
                        Start(OldRange(rows[4])), Start(NewRange(rows[4])),
                        Path(rows))
        Apply(rows) ==
            Applied(rows, Fragment(Body(rows), Count(OldRange(rows[4])),
                                   Count(NewRange(rows[4])), <<>>, <<>>, FALSE))
    IN  Apply(Lines(patch))

\* The part the three hunk operations share (lines 832-862, 872-900 and
\* 910-940): git apply is started with the flags, the patch is written to its
\* standard input, its exit is awaited and its status read.  io is what
\* happens on the way: "spawn" (the command cannot be started), "write" (the
\* pipe breaks before the whole patch is written, so that the tool reads a
\* part of the patch and rejects it), "wait" (the tool has the patch and runs,
\* but its exit cannot be collected) or "run".
ApplyPatch(cached, reverse, patch, io, r, failure) ==
    LET cmd == "git apply" \o (IF cached THEN " --cached" ELSE "")
               \o (IF reverse THEN " --reverse" ELSE "") \o " --unidiff-zero"
        Broken == "Broken pipe (os error 32)"
        NoChild == "No child processes (os error 10)"
        Into(file) ==
            IF cached THEN [r EXCEPT !.index = file] ELSE [r EXCEPT !.workdir = file]
        After(tool) ==
            CASE io = "spawn" ->
                   [ret |-> Err("Failed to execute git apply: " \o SpawnError),
                    repo |-> r, out |-> SpawnFailure, cmd |-> cmd]
              [] io = "write" ->
                   [ret |-> Err("Failed to write patch to stdin: " \o Broken),
                    repo |-> r, cmd |-> cmd,
                    out |-> [spawned |-> TRUE, success |-> FALSE, stdout |-> "",
                             stderr |-> "", error |-> Broken]]
              [] io = "wait" ->
                   [ret |-> Err("Failed to wait for git apply: " \o NoChild),
                    repo |-> Into(tool.file), cmd |-> cmd,
                    out |-> [spawned |-> TRUE, success |-> FALSE, stdout |-> "",
                             stderr |-> "", error |-> NoChild]]
              [] OTHER ->
                   [ret |-> IF tool.success THEN Ok(<<>>)
                            ELSE Err(failure \o Trim(tool.stderr)),
                    repo |-> Into(tool.file), cmd |-> cmd,
                    out |-> Exited(tool.success, "", tool.stderr)]
    IN  After(GitApply(patch, cached, reverse, IF cached THEN r.index ELSE r.workdir))

\* fn stage_hunk(repo_path, file_path, hunk): git apply --cached --unidiff-zero
stage_hunk(file_path, hunk, io, r) ==
    ApplyPatch(TRUE, FALSE, generate_patch(file_path, hunk), io, r,
               "Failed to stage hunk: ")

\* an unstage whose error leaves out what the tool wrote
UnstageDropsStderr(file_path, hunk, io, r) ==
    LET Short(done) ==
            [done EXCEPT !.ret = IF done.ret.ok THEN done.ret
                                 ELSE Err("Failed to unstage hunk")]
    IN  Short(ApplyPatch(TRUE, TRUE, generate_patch(file_path, hunk), io, r,
                         "Failed to unstage hunk: "))

\* fn unstage_hunk(repo_path, file_path, hunk):
\* git apply --cached --reverse --unidiff-zero
unstage_hunk(file_path, hunk, io, r) ==
    ApplyPatch(TRUE, TRUE, generate_patch(file_path, hunk), io, r,
               "Failed to unstage hunk: ")

\* a discard that points the tool at the index
DiscardCached(file_path, hunk, io, r) ==
    ApplyPatch(TRUE, TRUE, generate_patch(file_path, hunk), io, r,
               "Failed to discard hunk: ")

\* fn discard_hunk(repo_path, file_path, hunk):
\* git apply --reverse --unidiff-zero
discard_hunk(file_path, hunk, io, r) ==
    ApplyPatch(FALSE, TRUE, generate_patch(file_path, hunk), io, r,
               "Failed to discard hunk: ")

(***************************************************************************)
(* Invocations of the diff and hunk commands on a repository that holds    *)
(* the file in some state.                                                 *)
(***************************************************************************)

\* the lines a file of the model is made of
FileLines == {"a\n", "b\n"}

\* the most lines the three files of a starting repository have together
MaxLines == 2

\* the most hunk operations of one run
MaxCalls == 1

\* the files of at most n lines, and no file
Files(n) ==
    {None} \cup {Some(c) : c \in UNION {[1..k -> FileLines] : k \in 0..n}}

\* a file with a null byte
BinaryFile == Some(<<"a" \o Nul \o "\n">>)

\* files whose last line has no line break
PartialFiles == {Some(<<"a">>), Some(<<"a\n", "b">>)}

Size(file) == IF file = None THEN 0 ELSE Len(file[1])

InitHunk ==
    /\ pc = "idle"
    /\ op = ""
    /\ args = NoArgs
    /\ procs = <<>>
    /\ out = NoOutput
    /\ ret = NoRet
    /\ local = NoLocal
    /\ \/ \E h \in Files(MaxLines), i \in Files(MaxLines), w \in Files(MaxLines) :
            /\ Size(h) + Size(i) + Size(w) <= MaxLines
            /\ repo = [head |-> h, index |-> i, workdir |-> w, force_text |-> FALSE]
       \/ \E t \in {None, Some(<<"a\n">>)}, w \in {None, BinaryFile},
             force_text \in BOOLEAN :
            repo = [head |-> IF w = None THEN BinaryFile ELSE t,
                    index |-> IF w = None THEN BinaryFile ELSE t, workdir |-> w,
                    force_text |-> force_text]
       \/ \E t \in {None, Some(<<"a\n">>)} \cup PartialFiles,
             w \in {None, Some(<<"a\n">>)} \cup PartialFiles, h \in BOOLEAN :
            /\ t \in PartialFiles \/ w \in PartialFiles
            /\ repo = [head |-> IF h THEN t ELSE None, index |-> t, workdir |-> w,
                       force_text |-> FALSE]
    /\ held = None
    /\ calls = 0
    /\ app = NoApp
    /\ watch = NoWatch

\* the command get_working_diff; the caller keeps the DiffInfo it is given
GetWorkingDiff ==
    /\ pc = "idle"
    /\ \E staged \in BOOLEAN,
          file_status \in {"modified", "untracked", "deleted", "new"} :
         \E result \in get_working_diff_command(repo, FilePath, staged, file_status) :
            /\ pc' = "done"
            /\ op' = "get_working_diff"
            /\ args' = [staged |-> staged, file_status |-> file_status]
            /\ ret' = result
            /\ held' = IF result.ok THEN Some(result.value) ELSE held
            /\ UNCHANGED <<procs, out, local, repo, calls, app, watch>>

\* the HunkData the caller makes of a hunk it was given
HunkData(hunk) ==
    [old_start |-> hunk.old_start, old_lines |-> hunk.old_lines,
     new_start |-> hunk.new_start, new_lines |-> hunk.new_lines,
     lines |-> [i \in 1..Len(hunk.lines) |->
                   [content |-> hunk.lines[i].content,
                    line_type |-> hunk.lines[i].line_type]]]

\* a hunk command invoked with a hunk of the DiffInfo the caller holds; local
\* keeps the repository as the command found it
HunkCommand(name) ==
    /\ pc = "idle"
    /\ calls < MaxCalls
    /\ held # None
    /\ \E i \in 1..Len(held[1].hunks), io \in {"spawn", "write", "wait", "run"} :
         LET Returns(hunk, done) ==
                 /\ pc' = "done"
                 /\ op' = name
                 /\ args' = [hunk |-> hunk, io |-> io]
                 /\ procs' = <<Proc(done.cmd, NoEnv, done.out)>>
                 /\ out' = done.out
                 /\ ret' = done.ret
                 /\ local' = [before |-> repo]
                 /\ repo' = done.repo
                 /\ calls' = calls + 1
                 /\ held' = held
                 /\ UNCHANGED <<app, watch>>
             Operation(hunk) ==
                 CASE name = "stage_hunk" -> stage_hunk(FilePath, hunk, io, repo)
                   [] name = "unstage_hunk" -> unstage_hunk(FilePath, hunk, io, repo)
                   [] name = "discard_hunk" -> discard_hunk(FilePath, hunk, io, repo)
             Invoke(hunk) == Returns(hunk, Operation(hunk))
         IN  Invoke(HunkData(held[1].hunks[i]))

StageHunk == HunkCommand("stage_hunk")

UnstageHunk == HunkCommand("unstage_hunk")

DiscardHunk == HunkCommand("discard_hunk")

NextHunk == GetWorkingDiff \/ StageHunk \/ UnstageHunk \/ DiscardHunk \/ Reset

SpecHunk == InitHunk /\ [][NextHunk]_vars

(***************************************************************************)
(* git_checkout_with_stash on a repository that has a stash.  Here repo is *)
(* the stash stack (top first), whether the working tree has changes to    *)
(* save, and the branch that is checked out.                               *)
(***************************************************************************)

\* the entries a stash has before the first invocation
OlderEntries == {[message |-> "WIP on main", id |-> 1], [message |-> "WIP on topic", id |-> 2]}

\* the stacks made of these, none twice
Stacks ==
    ({<<>>} \cup {<<e>> : e \in OlderEntries}
    \cup {<<e, f>> : e \in OlderEntries, f \in OlderEntries})
    \ {<<e, e>> : e \in OlderEntries}

NoStashEntries == "No stash entries found.\n"

PathspecNoMatch == "error: pathspec 'topic' did not match any file(s) known to git\n"

\* `git stash push -u -m <message>`: saves the changes of the working tree as
\* a new entry on top and leaves the tree clean; with nothing to save it says
\* so and exits 0 with the stack as it was
StashPushOn(w, message, id) ==
    {[out |-> SpawnFailure, repo |-> w],
     [out |-> Exited(FALSE, "", "fatal: Unable to create index.lock\n"), repo |-> w],
     IF w.dirty
     THEN [out |-> Exited(TRUE, "Saved working directory and index state\n", ""),
           repo |-> [w EXCEPT !.stash = <<[message |-> message, id |-> id]>> \o @,
                              !.dirty = FALSE]]
     ELSE [out |-> Exited(TRUE, NoLocalChanges, ""), repo |-> w]}

\* `git checkout <branch>`
CheckoutOn(w, branch) ==
    {[out |-> SpawnFailure, repo |-> w],
     [out |-> Exited(FALSE, "", PathspecNoMatch), repo |-> w],
     [out |-> Exited(TRUE, "", SwitchedToBranch), repo |-> [w EXCEPT !.branch = branch]]}

\* `git stash pop`: applies the entry on top of the stack, whoever made it,
\* and drops it; on a conflict the entry stays; without entries it fails
StashPopOn(w) ==
    {[out |-> SpawnFailure, repo |-> w]}
    \cup IF w.stash = <<>>
         THEN {[out |-> Exited(FALSE, "", NoStashEntries), repo |-> w]}
         ELSE {[out |-> Exited(TRUE, "Dropped refs/stash@{0}\n", ""),
                repo |-> [w EXCEPT !.stash = Tail(@), !.dirty = TRUE]],
               [out |-> Exited(FALSE, "", ConflictLine),
                repo |-> [w EXCEPT !.dirty = TRUE]]}

InitStash ==
    /\ pc = "idle"
    /\ op = ""
    /\ args = NoArgs
    /\ procs = <<>>
    /\ out = NoOutput
    /\ ret = NoRet
    /\ local = NoLocal
    /\ \E stack \in Stacks, dirty \in BOOLEAN :
         repo = [stash |-> stack, dirty |-> dirty, branch |-> "main"]
    /\ held = None
    /\ calls = 0
    /\ app = NoApp
    /\ watch = NoWatch

\* fn git_checkout_with_stash(repo_path, branch_name, restore_changes) as one
\* invocation; local keeps the repository as the invocation found it
CheckoutWithStashCall ==
    /\ pc = "idle"
    /\ calls < MaxCalls
    /\ \E restore_changes \in BOOLEAN :
         LET a == [branch_name |-> BranchName, restore_changes |-> restore_changes]
             Returns(p, step, r) ==
                 /\ pc' = "done"
                 /\ op' = "git_checkout_with_stash"
                 /\ args' = a
                 /\ procs' = p
                 /\ out' = step.out
                 /\ ret' = r
                 /\ local' = [before |-> repo]
                 /\ repo' = step.repo
                 /\ calls' = calls + 1
                 /\ held' = held
                 /\ UNCHANGED <<app, watch>>
             Popped(p, pop) ==
                 IF ~pop.out.spawned
                 THEN Returns(p, pop, SpawnErr("Failed to execute git stash pop", pop.out))
                 ELSE IF ~pop.out.success
                 THEN Returns(p, pop,
                              Ok(GitOperationResult(
                                   TRUE,
                                   "Switched to '" \o BranchName
                                   \o "' but failed to restore changes. Your changes are in stash. Error: "
                                   \o Trim(pop.out.stderr),
                                   None, None, Some("stash_pop_conflict"), None)))
                 ELSE Returns(p, pop,
                              Ok(GitOperationResult(
                                   TRUE,
                                   "Switched to '" \o BranchName
                                   \o "' and restored changes",
                                   None, None, None, None)))
             CheckedOut(p, checkout) ==
                 IF ~checkout.out.spawned
                 THEN Returns(p, checkout,
                              SpawnErr("Failed to execute git checkout", checkout.out))
                 ELSE IF ~checkout.out.success
                 THEN \E pop \in StashPopOn(checkout.repo) :
                        Returns(Append(p, Proc("git stash pop", NoEnv, pop.out)), pop,
                                Ok(TaggedFailure("Checkout failed (stash restored): "
                                                 \o Trim(checkout.out.stderr),
                                                 "checkout_failed")))
                 ELSE IF restore_changes
                 THEN \E pop \in StashPopOn(checkout.repo) :
                        Popped(Append(p, Proc("git stash pop", NoEnv, pop.out)), pop)
                 ELSE Returns(p, checkout,
                              Ok(GitOperationResult(
                                   TRUE,
                                   "Switched to '" \o BranchName
                                   \o "' (changes saved in stash)",
                                   None, None, None, None)))
             Pushed(p, push) ==
                 IF ~push.out.spawned
                 THEN Returns(p, push, SpawnErr("Failed to execute git stash", push.out))
                 ELSE IF ~push.out.success
                 THEN Returns(p, push,
                              Ok(TaggedFailure("Failed to stash changes: "
                                               \o Trim(push.out.stderr),
                                               "stash_failed")))
                 ELSE \E checkout \in CheckoutOn(push.repo, BranchName) :
                        CheckedOut(Append(p, Proc("git checkout topic", NoEnv,
                                                  checkout.out)),
                                   checkout)
         IN  \E push \in StashPushOn(repo, "Auto-stash before switching to "
                                             \o BranchName, calls + 3) :
                Pushed(<<Proc("git stash push -u -m Auto-stash", NoEnv, push.out)>>,
                       push)

NextStash == CheckoutWithStashCall \/ Reset

SpecStash == InitStash /\ [][NextStash]_vars

(***************************************************************************)
(* The file watcher: WatcherState, the three watcher functions and the     *)
(* callback that the debouncer calls with each batch of events             *)
(***************************************************************************)

\* const IGNORED_PATHS
IGNORED_PATHS ==
    {".git/objects", ".git/logs", ".git/hooks", ".git/refs", "node_modules",
     "target", ".next", "dist", "build", "__pycache__", ".turbo"}

\* fn should_ignore_path(path): the text of the path contains an ignored name
should_ignore_path(path) ==
    \E ignored \in IGNORED_PATHS : Contains(path, ignored)

\* Path::ends_with(child): the last components of the path are those of child
PathEndsWith(path, child) ==
    \/ path = child
    \/ /\ Len(path) > Len(child)
       /\ SubSeq(path, Len(path) - Len(child), Len(path)) = "/" \o child

\* fn is_git_head_file(path)
is_git_head_file(path) ==
    PathEndsWith(path, ".git/HEAD") \/ PathEndsWith(path, ".git\\HEAD")

\* the closure given to new_debouncer, called with Ok(events): what it emits,
\* in order, for one batch
OnEvents(events, repo_path) ==
    LET Kept(e) == e.kind = "Any"
        has_branch_change ==
            \E i \in 1..Len(events) : Kept(events[i]) /\ is_git_head_file(events[i].path)
        Relevant(e) ==
            Kept(e) /\ ~should_ignore_path(e.path) /\ ~is_git_head_file(e.path)
        relevant_events == SelectSeq(events, Relevant)
    IN  (IF has_branch_change
         THEN <<[event |-> "repo-branch-changed", repo_path |-> repo_path]>>
         ELSE <<>>)
        \o (IF relevant_events # <<>>
            THEN <<[event |-> "repo-files-changed", repo_path |-> repo_path]>>
            ELSE <<>>)

\* fn stop_watching_internal(watcher_state): both fields are set to None
stop_watching_internal(w) ==
    [w EXCEPT !.debouncer = None, !.watched_path = None]

\* fn start_watching(app_handle, repo_path); failure says which step fails:
\* "debouncer" for new_debouncer, "watch" for watcher().watch(), "none"
start_watching(w, repo_path, failure) ==
    LET stopped == stop_watching_internal(w)
        stored == [stopped EXCEPT
                      !.debouncer = Some([repo_path |-> repo_path, watching |-> None]),
                      !.watched_path = Some(repo_path)]
    IN  IF failure = "debouncer"
        THEN [ret |-> Err("Failed to create debouncer: " \o "notify::Error"),
              watch |-> stopped]
        ELSE IF failure = "watch"
        THEN [ret |-> Err("Failed to watch path: " \o "notify::Error"),
              watch |-> stored]
        ELSE [ret |-> Ok(<<>>),
              watch |-> [stored EXCEPT !.debouncer[1].watching = Some(repo_path)]]

\* fn stop_watching(app_handle)
stop_watching(w) == [ret |-> Ok(<<>>), watch |-> stop_watching_internal(w)]

\* fn get_watched_path(app_handle)
get_watched_path(w) == w.watched_path

\* the directories a watcher is started on; nothing is at the last one
WatchedDirs == {"/repo/a", "/repo/b", "/gone"}

\* paths of files below a watched directory
ChangedFiles ==
    {".git/HEAD", ".git/index", ".git/objects/ab/12", "src/main.rs",
     "src/distance.rs", "node_modules/m/index.js", "node_modules/m/.git/HEAD"}

\* the most events of one batch
MaxBatch == 2

\* the batches of events on files below a directory
Batches(dir) ==
    LET Events == {[kind |-> k, path |-> dir \o "/" \o f] :
                      k \in {"Any", "AnyContinuous"}, f \in ChangedFiles}
    IN  UNION {[1..n -> Events] : n \in 1..MaxBatch}

\* a watcher command returns; what the callback emitted before is with the
\* frontend by now
Watched(name, a, done) ==
    /\ pc' = "done"
    /\ op' = name
    /\ args' = a
    /\ ret' = done.ret
    /\ watch' = [done.watch EXCEPT !.batch = <<>>, !.emitted = <<>>]
    /\ UNCHANGED <<procs, out, local, repo, held, calls, app>>

\* the command start_file_watcher
StartWatching ==
    /\ pc = "idle"
    /\ \E repo_path \in WatchedDirs, failure \in {"none", "debouncer", "watch"} :
         /\ repo_path = "/gone" => failure # "none"
         /\ Watched("start_watching", [path |-> repo_path],
                    start_watching(watch, repo_path, failure))

\* the command stop_file_watcher
StopWatching ==
    /\ pc = "idle"
    /\ Watched("stop_watching", NoArgs, stop_watching(watch))

\* the command get_watched_repo_path
GetWatchedPath ==
    /\ pc = "idle"
    /\ Watched("get_watched_path", NoArgs,
               [ret |-> Ok(get_watched_path(watch)), watch |-> watch])

\* the debouncer calls the closure with a batch of events on the directory
\* that it watches
Debounced ==
    /\ watch.debouncer # None
    /\ watch.debouncer[1].watching # None
    /\ \E events \in Batches(watch.debouncer[1].watching[1]) :
         watch' = [watch EXCEPT !.batch = events,
                                !.emitted = OnEvents(events, watch.debouncer[1].repo_path)]
    /\ UNCHANGED <<pc, op, args, procs, out, ret, local, repo, held, calls, app>>

InitWatch == Init

NextWatch == StartWatching \/ StopWatching \/ GetWatchedPath \/ Debounced \/ Reset

SpecWatch == InitWatch /\ [][NextWatch]_vars

(***************************************************************************)
(* The commands of git/commands.rs on the thread pool.  app is the path    *)
(* in AppState, the thread that owns its Mutex, and for each thread the    *)
(* command it runs, where it is in it, the path it took from AppState,     *)
(* the subprocesses it has started and what it returned.                   *)
(***************************************************************************)

\* the most commands that run at the same time
MaxThreads == 2

Threads == 1..MaxThreads

\* the commands that take the path of AppState, next to open_repository
RepoCommands == {"stage_hunk", "unstage_hunk", "discard_hunk", "git_pull"}

\* the paths open_repository is called with; nothing is at the last one
OpenPaths == {"/repo/a", "/repo/b", "/nowhere"}

\* a thread that runs no command
IdleThread ==
    [at |-> "idle", command |-> "", path |-> "", using |-> None, started |-> 0,
     ret |-> NoRet]

\* thread t goes on as record next, with AppState as given
Step(t, next, path, owner) ==
    /\ app' = [current_repo_path |-> path, owner |-> owner,
               threads |-> [app.threads EXCEPT ![t] = next]]
    /\ UNCHANGED <<pc, op, args, procs, out, ret, local, repo, held, calls, watch>>

\* the frontend invokes a command; it runs on a thread of the pool
Invoke ==
    \E t \in Threads, command \in RepoCommands \cup {"open_repository"},
       path \in OpenPaths :
        /\ app.threads[t].at = "idle"
        /\ command = "open_repository" \/ path = "/repo/a"
        /\ Step(t, [IdleThread EXCEPT
                        !.at = IF command = "open_repository" THEN "opening" ELSE "lock",
                        !.command = command,
                        !.path = IF command = "open_repository" THEN path ELSE ""],
                app.current_repo_path, app.owner)

\* open_repository: repository::open_repository(&path)? and
\* repository::get_repository_info(&repo)?, before the lock is taken
OpenRepositoryRead(t) ==
    /\ app.threads[t].at = "opening"
    /\ \E failure \in {"none", "open", "info"} :
         /\ app.threads[t].path = "/nowhere" => failure = "open"
         /\ Step(t,
                 IF failure = "none"
                 THEN [app.threads[t] EXCEPT !.at = "lock"]
                 ELSE [app.threads[t] EXCEPT
                          !.at = "done",
                          !.ret = Err(IF failure = "open"
                                      THEN "Failed to open repository"
                                      ELSE "Failed to read repository")],
                 app.current_repo_path, app.owner)

\* a lock() that does not wait for the owner of the Mutex
LockWithoutWaiting(t) ==
    /\ app.threads[t].at = "lock"
    /\ Step(t,
            [app.threads[t] EXCEPT
                !.at = IF app.threads[t].command = "open_repository"
                       THEN "store" ELSE "path"],
            app.current_repo_path, Some(t))

\* state.current_repo_path.lock().unwrap(): the thread waits until no thread
\* owns the Mutex and then owns it
Lock(t) ==
    /\ app.threads[t].at = "lock"
    /\ app.owner = None
    /\ Step(t,
            [app.threads[t] EXCEPT
                !.at = IF app.threads[t].command = "open_repository"
                       THEN "store" ELSE "path"],
            app.current_repo_path, Some(t))

\* open_repository: *repo_path = Some(path); Ok(info); the guard is dropped
OpenRepositoryStore(t) ==
    /\ app.threads[t].at = "store"
    /\ Step(t, [app.threads[t] EXCEPT !.at = "done", !.ret = Ok("RepositoryInfo")],
            Some(app.threads[t].path), None)

\* a command that runs on the path "." when no repository is opened
ReadPathOrHere(t) ==
    /\ app.threads[t].at = "path"
    /\ Step(t,
            [app.threads[t] EXCEPT
                !.at = "body",
                !.using = IF app.current_repo_path = None THEN Some(".")
                          ELSE app.current_repo_path],
            app.current_repo_path, app.owner)

\* let path = repo_path.as_ref().ok_or("No repository opened")?
ReadPath(t) ==
    /\ app.threads[t].at = "path"
    /\ IF app.current_repo_path = None
       THEN Step(t, [app.threads[t] EXCEPT
                        !.at = "done", !.ret = Err("No repository opened")],
                 app.current_repo_path, None)
       ELSE Step(t, [app.threads[t] EXCEPT
                        !.at = "body", !.using = app.current_repo_path],
                 app.current_repo_path, app.owner)

\* repository::stage_hunk(path, ...), git_pull(path), ...: the function
\* starts its subprocess in the repository at path
RunOnPath(t) ==
    /\ app.threads[t].at = "body"
    /\ Step(t, [app.threads[t] EXCEPT !.at = "wait", !.started = @ + 1],
            app.current_repo_path, app.owner)

\* the function returns and the command with it; the guard is dropped
Return(t) ==
    /\ app.threads[t].at = "wait"
    /\ \E ok \in BOOLEAN :
         Step(t, [app.threads[t] EXCEPT
                     !.at = "done",
                     !.ret = IF ok THEN Ok(<<>>) ELSE Err("Failed")],
              app.current_repo_path, None)

\* the frontend has the response of the command
Respond(t) ==
    /\ app.threads[t].at = "done"
    /\ Step(t, IdleThread, app.current_repo_path, app.owner)

InitApp ==
    /\ pc = "idle"
    /\ op = ""
    /\ args = NoArgs
    /\ procs = <<>>
    /\ out = NoOutput
    /\ ret = NoRet
    /\ local = NoLocal
    /\ repo = NoFile
    /\ held = None
    /\ calls = 0
    /\ app = [current_repo_path |-> None, owner |-> None,
              threads |-> [t \in Threads |-> IdleThread]]
    /\ watch = NoWatch

OpenRepository == \E t \in Threads : OpenRepositoryRead(t) \/ OpenRepositoryStore(t)

TakeLock == \E t \in Threads : Lock(t)

RunCommand == \E t \in Threads : ReadPath(t) \/ RunOnPath(t) \/ Return(t)

GiveResponse == \E t \in Threads : Respond(t)

NextApp == Invoke \/ OpenRepository \/ TakeLock \/ RunCommand \/ GiveResponse

SpecApp == InitApp /\ [][NextApp]_vars

(***************************************************************************)
(* Properties of the results.  ret is read only when pc = "done".          *)
(***************************************************************************)

\* an operation has returned a GitOperationResult (it did not raise)
Returned == pc = "done" /\ ret.ok

\* the last command the invocation started
LastProc == procs[Len(procs)]

\* stderr carries the host-authenticity text: the sentence and a fingerprint line
HostAuthenticityPattern(stderr) ==
    /\ Contains(stderr, "authenticity of host '")
    /\ Contains(stderr, "can't be established")
    /\ \/ Contains(stderr, "key fingerprint is SHA256:")
       \/ Contains(stderr, "key fingerprint is MD5:")

\* the phrases of the credential prompts, by kind, in lower case
UsernamePhrases == {"username for", "usuario para"}

PasswordPhrases == {"password for", "contraseña para"}

PassphrasePhrases == {"enter passphrase", "introduzca la contraseña"}

\* text carries one of the phrases, in any case
HasPhrase(text, phrases) ==
    LET In(lower) == \E ph \in phrases : Contains(lower, ph)
    IN  In(ToLowercase(text))

\* text carries a credential prompt of some kind
CredentialPrompt(text) ==
    HasPhrase(text, UsernamePhrases \cup PasswordPhrases \cup PassphrasePhrases)

\* stdout and stderr as the classifier joins them
Combined(stdout, stderr) == stdout \o "\n" \o stderr

\* C1 as stated: success = true implies that the SSH-verification payload, the
\* credential request, the error-type tag and the conflicting-file list are
\* all empty, for every operation.
C1_AllOptionalEmpty ==
    Returned /\ ret.value.success =>
        /\ ret.value.requires_ssh_verification = None
        /\ ret.value.requires_credential = None
        /\ ret.value.error_type = None
        /\ ret.value.conflicting_files = None

\* C1: success = true implies that the SSH-verification payload, the
\* credential request and the conflicting-file list are empty, and that the
\* error-type tag is empty except in the result of git_checkout_with_stash
\* whose `git stash pop` exited non-zero, which carries "stash_pop_conflict".
C1_SuccessPayloadsEmpty ==
    Returned /\ ret.value.success =>
        /\ ret.value.requires_ssh_verification = None
        /\ ret.value.requires_credential = None
        /\ ret.value.conflicting_files = None
        /\ \/ ret.value.error_type = None
           \/ /\ op = "git_checkout_with_stash"
              /\ ret.value.error_type = Some("stash_pop_conflict")
              /\ LastProc.cmd = "git stash pop"
              /\ LastProc.spawned /\ ~LastProc.success

\* C1: the stash was saved, the branch switched, and the pop exited non-zero
C1_Witness ==
    /\ Returned /\ op = "git_checkout_with_stash"
    /\ ret.value.success
    /\ ret.value.error_type = Some("stash_pop_conflict")

\* C2: the result of create_error_result is SSH-verification-required whenever
\* stderr carries the host-authenticity pattern, also when the output carries a
\* credential prompt or an error phrase; otherwise it is credential-required
\* whenever stdout+stderr carries a credential prompt, also when stderr carries
\* an error phrase.
C2_FirstMatchOrder ==
    Returned /\ op = "create_error_result" =>
        /\ HostAuthenticityPattern(args.stderr) =>
             /\ ret.value.requires_ssh_verification # None
             /\ ret.value.requires_credential = None
             /\ ret.value.error_type = Some("ssh_host_verification")
        /\ ~HostAuthenticityPattern(args.stderr)
           /\ CredentialPrompt(Combined(args.stdout, args.stderr)) =>
             /\ ret.value.requires_ssh_verification = None
             /\ ret.value.requires_credential # None
             /\ ret.value.error_type = Some("credential_required")

\* C2: stderr carries the pattern and "permission denied", stdout a password
\* prompt, and the result is SSH-verification-required
C2_Witness ==
    /\ Returned /\ op = "create_error_result"
    /\ HostAuthenticityPattern(args.stderr)
    /\ HasPhrase(args.stderr, {"permission denied"})
    /\ HasPhrase(args.stdout, PasswordPhrases)
    /\ ret.value.requires_ssh_verification # None
    /\ ret.value.requires_credential = None

\* the operations C3 names
ClassifiedOps == {"git_pull", "git_push", "git_fetch"}

\* C3 as stated: whatever the exit status, git_pull, git_push and git_fetch
\* yield SSH-verification-required when stderr carries the host-authenticity
\* pattern, and credential-required when stdout+stderr carries a credential
\* prompt.
C3_ChecksBeforeExitStatus ==
    pc = "done" /\ op \in ClassifiedOps /\ out.spawned =>
        /\ ret.ok
        /\ HostAuthenticityPattern(out.stderr) =>
             ret.value.requires_ssh_verification # None
        /\ ~HostAuthenticityPattern(out.stderr)
           /\ CredentialPrompt(Combined(out.stdout, out.stderr)) =>
             ret.value.requires_credential # None

\* C3: git_pull, git_push and git_fetch read the exit status first.  A process
\* that exited with status 0 yields success = true with neither payload,
\* whatever its output; one that exited non-zero yields
\* SSH-verification-required when stderr carries the host-authenticity
\* pattern, and otherwise credential-required when stdout+stderr carries a
\* credential prompt.
C3_ExitStatusFirst ==
    pc = "done" /\ op \in ClassifiedOps /\ out.spawned =>
        /\ ret.ok
        /\ out.success =>
             /\ ret.value.success
             /\ ret.value.requires_ssh_verification = None
             /\ ret.value.requires_credential = None
        /\ ~out.success /\ HostAuthenticityPattern(out.stderr) =>
             /\ ~ret.value.success
             /\ ret.value.requires_ssh_verification # None
        /\ ~out.success /\ ~HostAuthenticityPattern(out.stderr)
           /\ CredentialPrompt(Combined(out.stdout, out.stderr)) =>
             /\ ~ret.value.success
             /\ ret.value.requires_credential # None

\* C3: git pull exited with status 0 and a stderr that carries the pattern
C3_Witness ==
    /\ Returned /\ op = "git_pull"
    /\ out.success /\ HostAuthenticityPattern(out.stderr)
    /\ ret.value.success

\* C4: no result with success = false carries both an SSH-verification payload
\* and a credential request, whatever the operation and its output.
C4_AtMostOnePayload ==
    Returned /\ ~ret.value.success =>
        \/ ret.value.requires_ssh_verification = None
        \/ ret.value.requires_credential = None

\* C4: a failed command whose stderr carries the pattern and whose stdout
\* carries a password prompt
C4_Witness ==
    /\ Returned /\ ~ret.value.success
    /\ out.spawned /\ HostAuthenticityPattern(out.stderr)
    /\ CredentialPrompt(out.stdout)
    /\ ret.value.requires_ssh_verification # None
    /\ ret.value.requires_credential = None

\* the text between the first two quote marks of text; None without two of them
FirstQuoted(text) ==
    LET Pair(quotes) ==
            IF Cardinality(quotes) < 2 THEN None
            ELSE Some(SubSeq(text, First(quotes) + 1,
                             First(quotes \ {First(quotes)}) - 1))
    IN  Pair({i \in 1..Len(text) : SubSeq(text, i, i) = "'"})

\* text up to its first space
CutAtSpace(text) ==
    LET Cut(spaces) ==
            IF spaces = {} THEN text ELSE SubSeq(text, 1, First(spaces) - 1)
    IN  Cut({i \in 1..Len(text) : SubSeq(text, i, i) = " "})

\* what follows the first "host '" of stderr, up to the first quote mark or
\* space; None without "host '" or without a quote mark after it
HostAfterMarker(stderr) ==
    LET Stop(rest, quotes, stops) ==
            IF quotes = {} THEN None ELSE Some(SubSeq(rest, 1, First(stops) - 1))
        Rest(rest) ==
            Stop(rest, {i \in 1..Len(rest) : SubSeq(rest, i, i) = "'"},
                 {i \in 1..Len(rest) : SubSeq(rest, i, i) \in {"'", " "}})
        Marker(at) ==
            IF at = {} THEN None
            ELSE Rest(SubSeq(stderr, First(at) + 6, Len(stderr)))
    IN  Marker({i \in 1..(Len(stderr) - 5) : SubSeq(stderr, i, i + 5) = "host '"})

\* the words of the first line of stderr that contains "key fingerprint"
FingerprintWords(stderr) ==
    LET Pick(ls, at) == IF at = {} THEN <<>> ELSE SplitWhitespace(ls[First(at)])
        In(ls) == Pick(ls, {i \in 1..Len(ls) : Contains(ls[i], "key fingerprint")})
    IN  In(Lines(stderr))

\* the first of words that starts with "SHA256:" or "MD5:", without its
\* trailing periods; "" when there is none
FingerprintToken(words) ==
    LET Pick(at) ==
            IF at = {} THEN "" ELSE TrimEndMatches(words[First(at)], ".")
    IN  Pick({i \in 1..Len(words) :
                StartsWith(words[i], "SHA256:") \/ StartsWith(words[i], "MD5:")})

\* the conditions under which the classifier reports an SSH verification
SshApplies(stderr) ==
    /\ Contains(stderr, "authenticity of host")
    /\ Contains(stderr, "can't be established")
    /\ HostAfterMarker(stderr) # None
    /\ HostAfterMarker(stderr) # Some("")
    /\ Len(FingerprintWords(stderr)) >= 4
    /\ FingerprintToken(FingerprintWords(stderr)) # ""

\* C5 as stated: when stderr carries the host-authenticity pattern the result
\* is SSH-verification-required with host = the text between the first pair of
\* quote marks cut at the first space, key type = the first word of the
\* fingerprint line, fingerprint = its SHA256:/MD5: token without the period.
C5_HostBetweenFirstQuotes ==
    Returned /\ op = "create_error_result"
    /\ HostAuthenticityPattern(args.stderr) =>
        /\ ret.value.requires_ssh_verification # None
        /\ ret.value.requires_ssh_verification[1].host
             = CutAtSpace(FirstQuoted(args.stderr)[1])
        /\ ret.value.requires_ssh_verification[1].key_type
             = FingerprintWords(args.stderr)[1]
        /\ ret.value.requires_ssh_verification[1].fingerprint
             = FingerprintToken(FingerprintWords(args.stderr))

\* C5: the result is SSH-verification-required exactly when stderr contains
\* "authenticity of host" and "can't be established", a non-empty host follows
\* the first "host '" (up to the next quote mark, cut at the first space; quote
\* marks before it do not count), and the first line that contains
\* "key fingerprint" has at least four words, one of them starting with
\* "SHA256:" or "MD5:".  Then host is that text, key type the first word of
\* that line, fingerprint the first such word without trailing periods; the
\* example stderr gives example.com, ED25519, SHA256:abcd1234.
C5_HostAfterMarker ==
    Returned /\ op = "create_error_result" =>
        /\ SshApplies(args.stderr) =>
             ret.value.requires_ssh_verification
               = Some([host |-> HostAfterMarker(args.stderr)[1],
                       key_type |-> FingerprintWords(args.stderr)[1],
                       fingerprint |->
                           FingerprintToken(FingerprintWords(args.stderr))])
        /\ ~SshApplies(args.stderr) => ret.value.requires_ssh_verification = None
        /\ args.stderr = SshExample =>
             ret.value.requires_ssh_verification
               = Some([host |-> "example.com", key_type |-> "ED25519",
                       fingerprint |-> "SHA256:abcd1234"])

\* C5: a quoted name precedes the host-authenticity text, and the host
\* reported is the one after "host '"
C5_Witness ==
    /\ Returned /\ op = "create_error_result"
    /\ SshApplies(args.stderr)
    /\ FirstQuoted(args.stderr) = Some("repo")
    /\ ret.value.requires_ssh_verification # None
    /\ ret.value.requires_ssh_verification[1].host = "example.com"

\* the kinds of credential prompt that text carries
KindsPresent(text) ==
    {k \in {"username", "password", "passphrase"} :
        \/ k = "username" /\ HasPhrase(text, UsernamePhrases)
        \/ k = "password" /\ HasPhrase(text, PasswordPhrases)
        \/ k = "passphrase" /\ HasPhrase(text, PassphrasePhrases)}

\* the kind reported: username before password before passphrase
FirstKind(kinds) ==
    IF "username" \in kinds THEN "username"
    ELSE IF "password" \in kinds THEN "password"
    ELSE "passphrase"

\* C6 as stated: when no SSH verification applies and stdout+stderr carries a
\* credential prompt, the result is credential-required with a kind whose
\* prompt is carried, and its host is the text between the first pair of quote
\* marks of the combined output whenever there is one, for all three kinds.
C6_HostForEveryKind ==
    Returned /\ op = "create_error_result"
    /\ ~SshApplies(args.stderr)
    /\ CredentialPrompt(Combined(args.stdout, args.stderr)) =>
        /\ ret.value.requires_credential # None
        /\ ret.value.requires_credential[1].credential_type
             \in KindsPresent(Combined(args.stdout, args.stderr))
        /\ FirstQuoted(Combined(args.stdout, args.stderr)) # None =>
             ret.value.requires_credential[1].host
               = FirstQuoted(Combined(args.stdout, args.stderr))

\* C6: when no SSH verification applies and stdout+stderr carries a credential
\* prompt, the result is credential-required; its kind is the first of
\* username, password, passphrase whose prompt is carried, its prompt the
\* trimmed combined output, and its host the text between the first pair of
\* quote marks for the kinds username and password, while a passphrase request
\* never carries a host.
C6_HostExceptPassphrase ==
    Returned /\ op = "create_error_result"
    /\ ~SshApplies(args.stderr)
    /\ CredentialPrompt(Combined(args.stdout, args.stderr)) =>
        ret.value.requires_credential
          = Some([credential_type |->
                      FirstKind(KindsPresent(Combined(args.stdout, args.stderr))),
                  prompt |-> Trim(Combined(args.stdout, args.stderr)),
                  host |->
                      IF FirstKind(KindsPresent(Combined(args.stdout, args.stderr)))
                           = "passphrase"
                      THEN None
                      ELSE FirstQuoted(Combined(args.stdout, args.stderr))])

\* C6: a passphrase prompt that names the key file between quote marks
C6_Witness ==
    /\ Returned /\ op = "create_error_result"
    /\ KindsPresent(Combined(args.stdout, args.stderr)) = {"passphrase"}
    /\ FirstQuoted(Combined(args.stdout, args.stderr)) # None
    /\ ret.value.requires_credential # None
    /\ ret.value.requires_credential[1].credential_type = "passphrase"
    /\ ret.value.requires_credential[1].host = None

\* the error-type matchers in their order: the tag and the phrases of each
Matchers ==
    <<[tag |-> "ssh_host_verification_failed",
       phrases |-> {"host key verification failed"}],
      [tag |-> "authentication_failed",
       phrases |-> {"permission denied", "publickey"}],
      [tag |-> "remote_access_failed",
       phrases |-> {"could not read from remote",
                    "no se pudo leer del repositorio remoto"}],
      [tag |-> "connection_refused",
       phrases |-> {"connection refused", "conexión rechazada"}],
      [tag |-> "connection_timeout",
       phrases |-> {"connection timed out", "tiempo de espera agotado"}],
      [tag |-> "host_not_found",
       phrases |-> {"could not resolve host", "no se pudo resolver"}],
      [tag |-> "checkout_would_overwrite",
       phrases |-> {"would be overwritten by checkout",
                    "serían sobrescritos por checkout",
                    "serán sobrescritos por checkout"}],
      [tag |-> "divergent_branches",
       phrases |-> {"divergent branches", "need to specify how to reconcile",
                    "ramas divergentes"}],
      [tag |-> "git_error", phrases |-> {"fatal:"}]>>

\* the tag of the first matcher one of whose phrases occurs, None if none does
FirstMatcher(stderr) ==
    LET Pick(at) == IF at = {} THEN None ELSE Some(Matchers[First(at)].tag)
        In(lower) ==
            Pick({i \in 1..Len(Matchers) :
                    \E ph \in Matchers[i].phrases : Contains(lower, ph)})
    IN  In(ToLowercase(stderr))

\* C7: when neither an SSH verification nor a credential prompt applies, the
\* error-type tag is that of the first matcher, in the order of Matchers, one
\* of whose phrases occurs in stderr in any case, and it is unset when no
\* phrase occurs; "fatal: Authentication failed ... permission denied" gives
\* authentication_failed, not git_error.
C7_FirstMatcherWins ==
    Returned /\ op = "create_error_result"
    /\ ~SshApplies(args.stderr)
    /\ ~CredentialPrompt(Combined(args.stdout, args.stderr)) =>
        /\ ret.value.error_type = FirstMatcher(args.stderr)
        /\ args.stderr = AuthExample =>
             ret.value.error_type = Some("authentication_failed")

\* C7: the example stderr, which carries "fatal:" and "permission denied"
C7_Witness ==
    /\ Returned /\ op = "create_error_result"
    /\ args.stderr = AuthExample
    /\ ret.value.error_type = Some("authentication_failed")

\* the tags of detect_error_type
MatcherTags == {Matchers[i].tag : i \in 1..Len(Matchers)}

\* the closed set of C8: the matcher tags, merge-conflict and rebase-conflict
ClosedTags ==
    MatcherTags \cup {"merge_conflict", "merge_conflicts", "rebase_conflicts"}

\* the tags the operations set themselves
OperationTags ==
    {"ssh_host_verification", "credential_required", "stash_failed",
     "checkout_failed", "stash_pop_conflict", "push_failed",
     "delete_remote_failed", "not_merged", "no_changes", "conflicts",
     "no_merge_in_progress", "no_rebase_in_progress", "fast_forward_failed",
     "ssh_keyscan_failed", "no_host_keys"}

RECURSIVE MarkedLines(_, _, _)
MarkedLines(ls, marked, files) ==
    LET Line(trimmed) ==
            IF Contains(trimmed, "would be overwritten")
               \/ Contains(trimmed, "CONFLICT")
            THEN MarkedLines(Tail(ls), TRUE, files)
            ELSE IF StartsWith(trimmed, "Please") \/ StartsWith(trimmed, "Aborting")
            THEN files
            ELSE IF marked /\ trimmed # ""
            THEN MarkedLines(Tail(ls), marked, Append(files, trimmed))
            ELSE MarkedLines(Tail(ls), marked, files)
    IN  IF ls = <<>> THEN files ELSE Line(Trim(Head(ls)))

\* C9 as stated: the file list of a checkout that would overwrite, and of a
\* merge that failed with conflicts, is the sequence of non-empty lines
\* between a marker line ("would be overwritten", "CONFLICT") and the
\* terminating line; a merge that failed with CONFLICT lines reports a
\* non-empty list.
C9_FilesBetweenMarkers ==
    /\ Returned /\ op = "git_checkout"
       /\ ret.value.error_type = Some("checkout_would_overwrite") =>
         ret.value.conflicting_files
           = Some(MarkedLines(Lines(out.stderr), FALSE, <<>>))
    /\ Returned /\ op = "git_merge" /\ ~out.success
       /\ (Contains(out.stdout, "CONFLICT") \/ Contains(out.stderr, "CONFLICT")) =>
         /\ ret.value.conflicting_files # None
         /\ ret.value.conflicting_files[1] # <<>>
         /\ ret.value.conflicting_files[1]
              = MarkedLines(Lines(out.stdout), FALSE, <<>>)
                \o MarkedLines(Lines(out.stderr), FALSE, <<>>)

\* a step of the operation that is no subprocess has failed: the repository,
\* its HEAD or its configuration could not be read, or a file not written
LibraryStepFailed ==
    \/ "lib" \in DOMAIN args /\ args.lib # "ok"
    \/ "fs" \in DOMAIN args /\ args.fs # "ok"

\* the last command was started and exited non-zero
LastExitedNonZero == procs # <<>> /\ LastProc.spawned /\ ~LastProc.success

\* the operations whose last command may fail without failing them
Tolerated ==
    {<<"git_checkout_with_stash", "git stash pop">>,
     <<"git_rename_branch", "git branch -u origin/topic2 topic2">>,
     <<"git_flow_finish", "git checkout develop">>}

Outcomes5(r) ==
    {o \in {"SUCCEEDED", "SSH_VERIFICATION_REQUIRED", "CREDENTIAL_REQUIRED",
            "CONFLICTED", "FAILED"} :
        CASE o = "SUCCEEDED" -> r.success
          [] o = "SSH_VERIFICATION_REQUIRED" -> r.requires_ssh_verification # None
          [] o = "CREDENTIAL_REQUIRED" -> r.requires_credential # None
          [] o = "CONFLICTED" -> r.conflicting_files # None
          [] OTHER -> /\ ~r.success
                      /\ r.requires_ssh_verification = None
                      /\ r.requires_credential = None
                      /\ r.conflicting_files = None}

\* a command of the invocation that did not succeed was started again later
\* in the same invocation
Reissued ==
    \E i \in 1..Len(procs), j \in 1..Len(procs) :
        i < j /\ ~procs[i].success /\ procs[j].cmd = procs[i].cmd

ContactsRemote(cmd) ==
    \E verb \in {"git pull", "git push", "git fetch", "git ls-remote"} :
        StartsWith(cmd, verb)

\* C12 as stated: every command of an invocation that may contact a remote
\* (pull, push, fetch, the push of create-tag, the pushes of rename-branch and
\* delete-branch, the fetch of fast-forward, ls-remote) is started with
\* interactive terminal prompting disabled (GIT_TERMINAL_PROMPT=0).
C12_RemoteCommandsNeverPrompt ==
    \A i \in 1..Len(procs) :
        ContactsRemote(procs[i].cmd) => "GIT_TERMINAL_PROMPT=0" \in procs[i].env

\* C13 as stated: for any failing (stdout, stderr), git_test_remote_connection
\* produces the same error-type tag, SSH-verification payload and credential
\* request as git_fetch does for the same (stdout, stderr).
C13_SameClassificationAsFetch ==
    Returned /\ op = "git_test_remote_connection" /\ ~out.success =>
        LET Same(fetched) ==
                /\ ret.value.error_type = fetched.error_type
                /\ ret.value.requires_ssh_verification
                      = fetched.requires_ssh_verification
                /\ ret.value.requires_credential = fetched.requires_credential
        IN  Same(git_fetch(out).value)

(***************************************************************************)
(* Properties of the hunk operations.  local.before is the repository as   *)
(* the operation found it, repo the repository as it left it.              *)
(***************************************************************************)

\* a hunk operation has returned
HunkReturned == pc = "done" /\ op \in {"stage_hunk", "unstage_hunk", "discard_hunk"}

\* the flags of the git apply the operation started
Flags == {f \in {"--cached", "--reverse", "--unidiff-zero", "--index", "--3way"} :
             Contains(LastProc.cmd, f)}

\* C14: stage_hunk runs git apply --cached --unidiff-zero and leaves the
\* working tree as it was; unstage_hunk runs git apply --cached --reverse
\* --unidiff-zero on the same patch and leaves the working tree as it was;
\* discard_hunk runs git apply --reverse --unidiff-zero on the same patch and
\* leaves the index as it was; each starts one command, on one target, and
\* none touches the last commit.
C14_OneTargetOnly ==
    HunkReturned =>
        /\ Len(procs) = 1
        /\ repo.head = local.before.head
        /\ op = "stage_hunk" =>
             /\ Flags = {"--cached", "--unidiff-zero"}
             /\ repo.workdir = local.before.workdir
        /\ op = "unstage_hunk" =>
             /\ Flags = {"--cached", "--reverse", "--unidiff-zero"}
             /\ repo.workdir = local.before.workdir
        /\ op = "discard_hunk" =>
             /\ Flags = {"--reverse", "--unidiff-zero"}
             /\ repo.index = local.before.index

\* C14: discard_hunk succeeded and changed the working tree of a repository
\* whose index differs from the working tree before and after
C14_Witness ==
    /\ HunkReturned /\ op = "discard_hunk" /\ ret.ok
    /\ repo.workdir # local.before.workdir
    /\ repo.index = local.before.index
    /\ repo.index # None

\* the words an operation puts before the tool's error text
FailurePrefix ==
    CASE op = "stage_hunk" -> "Failed to stage hunk: "
      [] op = "unstage_hunk" -> "Failed to unstage hunk: "
      [] OTHER -> "Failed to discard hunk: "

\* the error of the operation is its prefix followed by what the tool wrote
CarriesToolText ==
    /\ out.spawned /\ out.stderr # ""
    /\ ret.error = FailurePrefix \o Trim(out.stderr)

\* C15 as stated: when a hunk operation returns an error, neither the index
\* nor the working tree has been modified, and the error carries the patch
\* tool's error text.
C15_ErrorChangesNothing ==
    HunkReturned /\ ~ret.ok =>
        /\ repo = local.before
        /\ CarriesToolText

\* the target of the operation holds the whole hunk applied as the tool
\* applies it, and nothing else of the repository has changed
WholeHunkApplied ==
    LET cached == "--cached" \in Flags
        Tool(file) ==
            GitApply(generate_patch(FilePath, args.hunk), cached,
                     "--reverse" \in Flags, file)
        Applied(tool) ==
            /\ tool.success
            /\ repo = IF cached THEN [local.before EXCEPT !.index = tool.file]
                      ELSE [local.before EXCEPT !.workdir = tool.file]
    IN  Applied(Tool(IF cached THEN local.before.index ELSE local.before.workdir))

\* C15: a hunk operation that returns an error because the tool rejected the
\* patch has modified nothing and its error is "Failed to <stage, unstage,
\* discard> hunk: " followed by the tool's error text; one that returns an
\* error because the tool could not be started or the patch could not be
\* written to it has modified nothing and its error carries the I/O error
\* instead; one that returns an error because the exit of the tool could not
\* be collected carries the I/O error too and has modified nothing or applied
\* the whole hunk.  One that returns no error has applied the whole hunk.
C15_WholeHunkOrNone ==
    HunkReturned =>
        /\ ~ret.ok /\ out.error = "" => repo = local.before /\ CarriesToolText
        /\ ~ret.ok /\ out.error # "" =>
             /\ Contains(ret.error, out.error)
             /\ out.stderr = ""
             /\ \/ repo = local.before
                \/ StartsWith(ret.error, "Failed to wait") /\ WholeHunkApplied
        /\ ret.ok => WholeHunkApplied

\* C15: stage_hunk was given a hunk that no longer matches the file of the
\* index, and the tool rejected it
C15_Witness ==
    /\ HunkReturned /\ op = "stage_hunk" /\ ~ret.ok
    /\ local.before.index # None
    /\ CarriesToolText
    /\ Contains(ret.error, "patch does not apply")
    /\ repo = local.before

\* the hunk is one of the diff of the working tree against the index, for a
\* file the caller sees as modified
FromWorkingDiff(hunk, r) ==
    \E d \in get_working_diff_command(r, FilePath, FALSE, "modified") :
        /\ d.ok
        /\ \E i \in 1..Len(d.value.hunks) : HunkData(d.value.hunks[i]) = hunk

AddOnly(hunk) ==
    /\ hunk.lines # <<>>
    /\ \A i \in 1..Len(hunk.lines) : hunk.lines[i].line_type = "add"

\* stage_hunk has returned from a first call with a hunk of only add lines of
\* the working-tree diff
C16_FirstStage ==
    /\ HunkReturned /\ op = "stage_hunk" /\ ret.ok
    /\ AddOnly(args.hunk)
    /\ FromWorkingDiff(args.hunk, local.before)

\* C16 (second call): when stage_hunk has staged a hunk of only add lines
\* taken from the working-tree diff, calling it again with the same hunk on
\* the unchanged file fails or succeeds, and either way leaves the index as
\* the first call left it.
C16_SecondStageKeepsIndex ==
    C16_FirstStage =>
        stage_hunk(FilePath, args.hunk, "run", repo).repo.index = repo.index

\* what the operation applies its patch to: the file of the index, or the
\* file of the working tree
Target(r) == IF "--cached" \in Flags THEN r.index ELSE r.workdir

\* the hunk is one of the diff that shows the operation's lines in the
\* repository as the operation found it: the staged diff for unstage_hunk,
\* the working-tree diff for the other two
FromCurrentDiff ==
    \E d \in get_working_diff(local.before, FilePath, op = "unstage_hunk") :
        /\ d.ok
        /\ \E i \in 1..Len(d.value.hunks) : HunkData(d.value.hunks[i]) = args.hunk

\* every diff of the target as the operation found it against the target as
\* it left it has a hunk with these line counts
RebuiltCounts(old_lines, new_lines) ==
    \A d \in Git2Diff(Target(local.before), Target(repo), repo.force_text) :
        \E i \in 1..Len(d.hunks) :
            /\ parse_diff(d, FilePath).value.hunks[i].old_lines = old_lines
            /\ parse_diff(d, FilePath).value.hunks[i].new_lines = new_lines

\* C17: when a hunk H of the current diff has been serialized and applied,
\* the diff rebuilt between the target as it was and the target as it is has
\* a hunk whose old and new line counts are those of H after stage_hunk, and
\* those of H swapped after unstage_hunk and discard_hunk.
C17_RoundTrip ==
    HunkReturned /\ ret.ok /\ FromCurrentDiff =>
        IF op = "stage_hunk"
        THEN RebuiltCounts(args.hunk.old_lines, args.hunk.new_lines)
        ELSE RebuiltCounts(args.hunk.new_lines, args.hunk.old_lines)

\* a content without the line terminators at its end
RECURSIVE Bare(_)
Bare(content) ==
    IF content # "" /\ SubSeq(content, Len(content), Len(content)) \in {"\n", "\r"}
    THEN Bare(SubSeq(content, 1, Len(content) - 1))
    ELSE content

\* the hunk with the content of every line given with this ending
Given(hunk, ending) ==
    [hunk EXCEPT !.lines = [i \in 1..Len(hunk.lines) |->
        [hunk.lines[i] EXCEPT !.content = Bare(hunk.lines[i].content) \o ending]]]

Endings == {"\n", "\r\n", "\r", "\n\n"}

\* the lines of the patch of the hunk of the operation
PatchRows(hunk) == Lines(generate_patch(FilePath, hunk))

Breaks(content) ==
    Cardinality({i \in 1..Len(Bare(content)) : SubSeq(content, i, i) = "\n"})

UntrackedReturned ==
    pc = "done" /\ op = "get_working_diff" /\ args.file_status = "untracked"

\* C20: the diff of an untracked file that is not binary and has N lines has
\* one hunk, with old range (0,0) and new range (1,N), whose N lines are the
\* lines of the file, each of type add, with no old line number and with the
\* new line numbers 1..N in order.
C20_UntrackedAllAdded ==
    LET OneHunk(file, d) ==
            /\ ~d.is_binary
            /\ Len(d.hunks) = 1
            /\ d.hunks[1].old_start = 0 /\ d.hunks[1].old_lines = 0
            /\ d.hunks[1].new_start = 1 /\ d.hunks[1].new_lines = Len(file)
            /\ Len(d.hunks[1].lines) = Len(file)
            /\ \A i \in 1..Len(file) :
                 /\ d.hunks[1].lines[i].line_type = "add"
                 /\ d.hunks[1].lines[i].old_line_no = None
                 /\ d.hunks[1].lines[i].new_line_no = Some(i)
                 /\ d.hunks[1].lines[i].content = Bare(file[i]) \o "\n"
    IN  UntrackedReturned /\ repo.workdir # None
        /\ ~is_binary_content(Text(repo.workdir[1]))
            => ret.ok /\ OneHunk(repo.workdir[1], ret.value)

\* C20: the diff of an untracked file of two lines has been returned
C20_Witness ==
    /\ UntrackedReturned /\ ret.ok
    /\ repo.index = None /\ repo.head = None
    /\ repo.workdir # None /\ Len(repo.workdir[1]) = 2
    /\ ret.value.hunks[1].new_lines = 2

\* get_working_diff has returned the working-tree diff of a file the caller
\* calls deleted
DeletedReturned ==
    /\ pc = "done" /\ op = "get_working_diff"
    /\ args.file_status = "deleted" /\ ~args.staged

Compared ==
    CASE args.file_status = "untracked" -> {repo.workdir}
      [] args.file_status = "deleted" /\ ~args.staged -> {repo.head}
      [] args.staged -> IF repo.head = repo.index THEN {} ELSE {repo.head, repo.index}
      [] OTHER -> IF repo.index = None \/ repo.index = repo.workdir THEN {}
                  ELSE {repo.index, repo.workdir}

\* C22: in every comparison mode, a file with a null byte in its first 8000
\* bytes is returned with the binary flag set and no hunks, also when the
\* diff library delivers it as a text.
C22_NullByteMeansBinary ==
    /\ pc = "done" /\ op = "get_working_diff" /\ args.file_status # "new"
    /\ \E file \in Compared : file # None /\ is_binary_content(Text(file[1]))
    => ret.ok /\ ret.value.is_binary /\ ret.value.hunks = <<>>

\* C23: every line of every hunk of a returned diff has no old line number
\* when its type is add, no new line number when its type is delete, and both
\* line numbers when its type is context, whatever origin the diff library
\* delivered it with, the end-of-file-newline markers included.
C23_LineNumbersByType ==
    LET ByType(line) ==
            CASE line.line_type = "add" -> line.old_line_no = None
              [] line.line_type = "delete" -> line.new_line_no = None
              [] OTHER -> line.old_line_no # None /\ line.new_line_no # None
    IN  pc = "done" /\ op = "get_working_diff" /\ ret.ok =>
            \A i \in 1..Len(ret.value.hunks) :
                \A j \in 1..Len(ret.value.hunks[i].lines) :
                    ByType(ret.value.hunks[i].lines[j])

\* git_pull or git_pull_with_options has returned after a process that exited
\* with success
PullSucceeded ==
    /\ pc = "done" /\ op \in {"git_pull", "git_pull_with_options"}
    /\ out.spawned /\ out.success

\* the standard output of the process has "Already up to date" or its Spanish
\* form somewhere in it
UpToDateIdiom ==
    Contains(out.stdout, "Already up to date")
    \/ Contains(out.stdout, "Ya está actualizado")

\* C24: when the process of a pull exited with success, the result is a
\* success whose message is exactly "Already up to date" when the standard
\* output has the English or the Spanish idiom in it, and the standard output
\* trimmed otherwise.
C24_UpToDateNormalized ==
    PullSucceeded =>
        /\ ret.ok /\ ret.value.success
        /\ ret.value.message = IF UpToDateIdiom THEN "Already up to date"
                                ELSE Trim(out.stdout)

\* C24: git_pull_with_options has returned "Already up to date" for a process
\* that wrote the Spanish idiom with its full stop and line ending
C24_Witness ==
    /\ PullSucceeded /\ op = "git_pull_with_options"
    /\ out.stdout = YaEstaActualizado
    /\ ret.value.message = "Already up to date"
    /\ ret.value.message # Trim(out.stdout)

\* C25: when git_checkout_with_stash has returned, the entries that the stash
\* had when it was called are all still on the stack, in the order they had,
\* whatever the working tree and the stack were and whichever way the call
\* went.
C25_OlderEntriesKept ==
    LET Older(entry) == \E i \in 1..Len(local.before.stash) :
                            local.before.stash[i] = entry
    IN  pc = "done" /\ op = "git_checkout_with_stash" =>
            SelectSeq(repo.stash, Older) = local.before.stash

\* the branch that the commands started so far have left checked out: the
\* one of the last `git checkout` that succeeded, none when there is none
RECURSIVE CheckedOutAfter(_)
CheckedOutAfter(p) ==
    IF p = <<>> THEN None
    ELSE IF p[Len(p)].success /\ StartsWith(p[Len(p)].cmd, "git checkout ")
    THEN Some(SubSeq(p[Len(p)].cmd, 14, Len(p[Len(p)].cmd)))
    ELSE CheckedOutAfter(SubSeq(p, 1, Len(p) - 1))

\* command i of the invocation is a merge started with this branch checked out
MergeOn(i, branch) ==
    /\ StartsWith(procs[i].cmd, "git merge ")
    /\ CheckedOutAfter(SubSeq(procs, 1, i - 1)) = Some(branch)

\* the flow branch has been merged into this branch
MergedInto(branch) ==
    \E i \in 1..Len(procs) : MergeOn(i, branch) /\ procs[i].success

\* the merge into the development branch ran and failed
DevelopMergeFailed ==
    \E i \in 1..Len(procs) :
        MergeOn(i, DevelopBranch) /\ procs[i].spawned /\ ~procs[i].success

TagCreated ==
    \E i \in 1..Len(procs) : StartsWith(procs[i].cmd, "git tag ") /\ procs[i].success

BranchDeleted ==
    \E i \in 1..Len(procs) :
        StartsWith(procs[i].cmd, "git branch -") /\ procs[i].success

\* git_flow_finish of a release or of a hotfix is running or has returned
FinishingRelease ==
    /\ op = "git_flow_finish" /\ args.lib = "ok"
    /\ args.flow_type \in {"release", "hotfix"}

\* a merge into the development branch is only started after the merge into
\* the production branch was made; when the merge into the development
\* branch has failed, nothing is started after it: the merge into the
\* production branch is there, there is no tag, the flow branch is not
\* deleted, the development branch is checked out and the result is a failure
NoRollback ==
    FinishingRelease =>
        /\ \A i \in 1..Len(procs) :
             MergeOn(i, DevelopBranch) =>
                 \E j \in 1..(i - 1) : MergeOn(j, MasterBranch) /\ procs[j].success
        /\ DevelopMergeFailed =>
             /\ pc = "done"
             /\ MergeOn(Len(procs), DevelopBranch)
             /\ MergedInto(MasterBranch)
             /\ ~TagCreated /\ ~BranchDeleted
             /\ CheckedOutAfter(procs) = Some(DevelopBranch)
             /\ ret.ok /\ ~ret.value.success

\* git_flow_finish has returned a success
FinishSucceeded ==
    pc = "done" /\ op = "git_flow_finish" /\ ret.ok /\ ret.value.success

Watching(dir) ==
    watch.debouncer # None /\ watch.debouncer[1].watching = Some(dir)

\* C29: whatever start_watching and stop_watching calls were made,
\* get_watched_path gives Some(p) exactly when a watcher is watching p; after
\* start_watching(q) returned Ok the watcher watches q, after stop_watching
\* there is no watcher and no path, and after a start_watching that returned
\* an error no path is given as watched.
C29_WatchedPathIsWatched ==
    /\ \A dir \in WatchedDirs : get_watched_path(watch) = Some(dir) <=> Watching(dir)
    /\ get_watched_path(watch) = None <=> \A dir \in WatchedDirs : ~Watching(dir)
    /\ pc = "done" /\ op = "start_watching" /\ ret.ok => Watching(args.path)
    /\ pc = "done" /\ op = "stop_watching" =>
         watch.debouncer = None /\ get_watched_path(watch) = None
    /\ pc = "done" /\ op = "start_watching" /\ ~ret.ok =>
         get_watched_path(watch) = None
    /\ pc = "done" /\ op = "get_watched_path" => ret.value = get_watched_path(watch)

\* the path is that of a file .git/HEAD
OnGitHead(path) ==
    \/ path = ".git/HEAD"
    \/ /\ Len(path) > 9
       /\ SubSeq(path, Len(path) - 9, Len(path)) = "/.git/HEAD"

\* the path goes through a directory that has an ignored name
UnderIgnoredDir(path) ==
    \E ignored \in IGNORED_PATHS : Contains("/" \o path, "/" \o ignored \o "/")

\* how often the callback emitted this event for the last batch
Emitted(event) ==
    Cardinality({i \in 1..Len(watch.emitted) : watch.emitted[i].event = event})

\* C30: for each batch of events the watcher emits "repo-branch-changed" at
\* most once, and once exactly when the batch has an event on a .git/HEAD
\* path; it emits "repo-files-changed" at most once, and once exactly when
\* the batch has an event on a path that is neither under an ignored
\* directory nor .git/HEAD.
C30_OneEventPerKindOfChange ==
    watch.batch # <<>> =>
        /\ Emitted("repo-branch-changed") <= 1
        /\ Emitted("repo-files-changed") <= 1
        /\ Emitted("repo-branch-changed") = 1 <=>
             \E i \in 1..Len(watch.batch) : OnGitHead(watch.batch[i].path)
        /\ Emitted("repo-files-changed") = 1 <=>
             \E i \in 1..Len(watch.batch) :
                 /\ ~UnderIgnoredDir(watch.batch[i].path)
                 /\ ~OnGitHead(watch.batch[i].path)

\* thread t is in a command between taking the lock and returning
InCommand(t) == app.threads[t].at \in {"store", "path", "body", "wait"}

\* C27: a command that uses the open repository owns the lock of
\* current_repo_path from its entry until it returns, so at most one such
\* command (hunk operations among them) is between its entry and its return
\* at any time, and the current path stays the one a running command took:
\* open_repository does not change it meanwhile.
C27_OneCommandAtATime ==
    /\ \A t \in Threads : InCommand(t) => app.owner = Some(t)
    /\ Cardinality({t \in Threads : InCommand(t)}) <= 1
    /\ \A t \in Threads :
         app.threads[t].at \in {"body", "wait"} =>
             /\ app.threads[t].using # None
             /\ app.threads[t].using = app.current_repo_path

\* C27: stage_hunk has started its subprocess while another hunk operation
\* and an open_repository of another path wait for the lock
C27_Witness ==
    \E t \in Threads, u \in Threads :
        /\ app.threads[t].at = "wait" /\ app.threads[t].command = "stage_hunk"
        /\ app.threads[u].at = "lock"
        /\ \/ app.threads[u].command = "unstage_hunk"
           \/ /\ app.threads[u].command = "open_repository"
              /\ Some(app.threads[u].path) # app.current_repo_path

\* a repository command that has returned with no repository opened returned
\* the error "No repository opened", took no path and started no subprocess
RefusedWithoutRepository ==
    \A t \in Threads :
        /\ app.threads[t].at = "done"
        /\ app.threads[t].command \in RepoCommands
        /\ app.current_repo_path = None
        => /\ app.threads[t].ret = Err("No repository opened")
           /\ app.threads[t].using = None
           /\ app.threads[t].started = 0

\* the current path changes in no step but the return of an open_repository
\* that returns Ok, and then to the path that command was called with
ChangedByOpenOnly ==
    app'.current_repo_path # app.current_repo_path =>
        \E t \in Threads :
            /\ app.threads[t].command = "open_repository"
            /\ app'.threads[t].at = "done" /\ app'.threads[t].ret.ok
            /\ app'.current_repo_path = Some(app.threads[t].path)

\* an open_repository that has returned an error is not the one that set the
\* current path: no repository is opened, or the path is that of another call
FailedOpenKeepsPath ==
    \A t \in Threads :
        /\ app.threads[t].at = "done"
        /\ app.threads[t].command = "open_repository"
        /\ ~app.threads[t].ret.ok
        /\ app.threads[t].path = "/nowhere"
        => app.current_repo_path # Some("/nowhere")

\* C28: the current repository path changes only through an open_repository
\* that succeeds; one that fails leaves the path as it was; and as long as no
\* open_repository has succeeded every repository command returns the error
\* "No repository opened" and starts no subprocess.
C28_PathSetByOpenOnly ==
    /\ [](RefusedWithoutRepository /\ FailedOpenKeepsPath)
    /\ [][ChangedByOpenOnly]_vars

\* C28: a hunk command has returned "No repository opened" after an
\* open_repository failed
C28_Witness ==
    \E t \in Threads, u \in Threads :
        /\ app.current_repo_path = None
        /\ app.threads[t].at = "done" /\ app.threads[t].command = "stage_hunk"
        /\ app.threads[t].ret = Err("No repository opened")
        /\ app.threads[u].at = "done" /\ app.threads[u].command = "open_repository"
        /\ ~app.threads[u].ret.ok

====
